---------------------------- MODULE Spec2Model ----------------------------
(***************************************************************************)
(* Model of the executable logic of the SSCP 2024 lecture repository:      *)
(*   - L16 (Machine Learning)/variable.py : reverse-mode autodiff Variable *)
(*   - L16 (Machine Learning)/methods.py  : spike trains and LIF neurons   *)
(*   - 02B_APD_restitution/run.py         : restitution driver, visualizer *)
(*   - 01_basic_bench/run.py              : single-cell pacing driver      *)
(*   - 04_limpet_fe/run.py                : dynamic-model-loading driver   *)
(*   - L03 .../L3_widgets.py              : voltage clamp widget           *)
(*   - L09 (Calcium Handling)/L10_widget.py, Jafri_model.py                *)
(* Python floats are modelled as exact rationals <<numerator, denominator>>*)
(* in lowest terms with a positive denominator.                            *)
(***************************************************************************)
EXTENDS Integers, Sequences, FiniteSets, TLC

VARIABLES
    heap,        \* every Variable object ever constructed, by identity (index)
    env,         \* names bound by the self-test: name -> Python value
    test,        \* which expression of the self-test is being evaluated
    root,        \* the Python value the expression evaluated to (or the exception)
    gradients,   \* the mapping returned by compute_gradients(root)
    adpc,        \* position in the autodiff script
    access,      \* reads of the gradients property of the nodes of a graph
    lif,         \* frame of lif_integrate
    adapt,       \* frame of lif_with_adaptation
    direct,      \* frame of lif_direct
    pois,        \* frame of poisson_neurons
    bin,         \* frame of spike_trains_to_binary
    rest,        \* frame of the restitution visualize()
    rrun,        \* frame of the restitution driver's run()
    jid,         \* two invocations of the restitution driver's jobID()
    pace,        \* frame of the pacing driver's run() and its directories
    limpet,      \* frame of the dynamic-model-loading driver's run()
    vclamp,      \* frame of VoltageClampWidget.solve_and_plot
    cicr,        \* one L9 CICRWidget instance and its views
    jafri        \* one call of Jafri_model_parts.currents_concentrations

vars == <<heap, env, test, root, gradients, adpc, access, lif, adapt, direct, pois, bin, rest,
          rrun, jid, pace, limpet, vclamp, cicr, jafri>>

adVars == <<heap, env, test, root, gradients, adpc, access>>

spikeVars == <<lif, adapt, direct, pois, bin>>

driverVars == <<rrun, jid, pace, limpet>>

widgetVars == <<vclamp, cicr, jafri>>

(***************************************************************************)
(* Bounds of the model.                                                    *)
(***************************************************************************)
MaxVal == 2          \* leaf values are n and n/2 for n in -MaxVal..MaxVal
MaxExp == 3          \* plain-number exponents are 0..MaxExp
NCells == 2          \* rows (cells) of a binary spike matrix
NBins == 3           \* columns (time bins) of a binary spike matrix
MaxDur == 3          \* durations of a Poisson run are 0..MaxDur
MaxSpikes == 2       \* spikes in one train handed to the binarizer
MaxHalf == 4         \* their times are k/2 ms for k in 0..MaxHalf
MaxLines == 3        \* lines of restout_APD_restitution.dat

(***************************************************************************)
(* Exact arithmetic on rationals.                                          *)
(***************************************************************************)
Abs(n) == IF n < 0 THEN -n ELSE n

RECURSIVE GCD(_, _)
GCD(a, b) == IF b = 0 THEN a ELSE GCD(b, a % b)

Rat(n, d) ==
    LET g == GCD(Abs(n), Abs(d))
        s == IF d < 0 THEN -1 ELSE 1
    IN  <<(s * n) \div g, (s * d) \div g>>

R(n) == <<n, 1>>

\* the common denominator is the least common multiple, to keep numbers small
RAdd(x, y) ==
    LET g == GCD(x[2], y[2])
    IN  Rat(x[1] * (y[2] \div g) + y[1] * (x[2] \div g), (x[2] \div g) * y[2])

RNeg(x) == <<-x[1], x[2]>>

RSub(x, y) == RAdd(x, RNeg(y))

\* common factors are cancelled before multiplying
RMul(x, y) ==
    LET g == GCD(Abs(x[1]), y[2])
        h == GCD(Abs(y[1]), x[2])
    IN  Rat((x[1] \div g) * (y[1] \div h), (x[2] \div h) * (y[2] \div g))

RDiv(x, y) == Rat(x[1] * y[2], x[2] * y[1])

RLt(x, y) == x[1] * y[2] < y[1] * x[2]

RLe(x, y) == x[1] * y[2] <= y[1] * x[2]

RECURSIVE RPow(_, _)
RPow(x, k) ==
    IF k = 0 THEN R(1)
    ELSE IF k < 0 THEN RDiv(R(1), RPow(x, -k))
    ELSE RMul(x, RPow(x, k - 1))

\* int(x): Python truncates toward zero
PyInt(x) == IF x[1] >= 0 THEN x[1] \div x[2] ELSE -((-x[1]) \div x[2])

\* np.sign
sign(x) == IF x[1] > 0 THEN R(1) ELSE IF x[1] < 0 THEN R(-1) ELSE R(0)

(***************************************************************************)
(* Python values: a plain number, a reference to a Variable, or the        *)
(* exception an evaluation ended with.                                     *)
(***************************************************************************)
PyNum(r) == [kind |-> "number", id |-> 0, value |-> r]

PyVar(i) == [kind |-> "Variable", id |-> i, value |-> R(0)]

PyErr(e) == [kind |-> e, id |-> 0, value |-> R(0)]

IsErr(v) == v.kind \notin {"number", "Variable"}

NoneValue == [isNone |-> TRUE, map |-> <<>>]

Stored(m) == [isNone |-> FALSE, map |-> m]

(***************************************************************************)
(* class Variable                                                          *)
(***************************************************************************)
\* mutant: the self-edge of a leaf carries 1 whatever the sign of its value
Variable_unit_leaf(h, value, grads, hasGrads) ==
    LET self == Len(h) + 1
        obj  == [value |-> value,
                 _gradients |-> IF hasGrads THEN grads ELSE <<<<self, R(1)>>>>,
                 _stored_gradients |-> NoneValue]
    IN  [heap |-> Append(h, obj), val |-> PyVar(self)]

\* Variable.__init__: the new object is appended to the heap; without a
\* gradient list it gets one edge to itself with local derivative sign(value)
Variable(h, value, grads, hasGrads) ==
    LET self == Len(h) + 1
        obj  == [value |-> value,
                 _gradients |-> IF hasGrads THEN grads ELSE <<<<self, sign(value)>>>>,
                 _stored_gradients |-> NoneValue]
    IN  [heap |-> Append(h, obj), val |-> PyVar(self)]

\* other = other if isinstance(other, Variable) else Variable(other)
Wrap(h, other) ==
    IF other.kind = "Variable" THEN [heap |-> h, val |-> other]
    ELSE Variable(h, other.value, <<>>, FALSE)

add(h, a, b) ==
    Variable(h, RAdd(h[a.id].value, h[b.id].value), <<<<a.id, R(1)>>, <<b.id, R(1)>>>>, TRUE)

\* mutant: the two local derivatives of a product swapped
mul_swapped(h, a, b) ==
    Variable(h, RMul(h[a.id].value, h[b.id].value),
             <<<<a.id, h[a.id].value>>, <<b.id, h[b.id].value>>>>, TRUE)

mul(h, a, b) ==
    Variable(h, RMul(h[a.id].value, h[b.id].value),
             <<<<a.id, h[b.id].value>>, <<b.id, h[a.id].value>>>>, TRUE)

neg(h, a) ==
    Variable(h, RMul(R(-1), h[a.id].value), <<<<a.id, R(-1)>>>>, TRUE)

\* mutant: the derivative of 1/a taken as -1/a
inv_unsquared(h, a) ==
    IF h[a.id].value[1] = 0 THEN [heap |-> h, val |-> PyErr("ZeroDivisionError")]
    ELSE Variable(h, RDiv(R(1), h[a.id].value),
                  <<<<a.id, RDiv(R(-1), h[a.id].value)>>>>, TRUE)

inv(h, a) ==
    IF h[a.id].value[1] = 0 THEN [heap |-> h, val |-> PyErr("ZeroDivisionError")]
    ELSE Variable(h, RDiv(R(1), h[a.id].value),
                  <<<<a.id, RDiv(R(-1), RPow(h[a.id].value, 2))>>>>, TRUE)

\* mutant: the factor n of the derivative of a power dropped
pow_no_factor(h, a, n) ==
    IF a.kind # "Variable" THEN [heap |-> h, val |-> PyErr("AttributeError")]
    ELSE IF n.kind = "Variable" THEN [heap |-> h, val |-> PyErr("AttributeError")]
    ELSE Variable(h, RPow(h[a.id].value, n.value[1]),
                  <<<<a.id, h[a.id].value>>>>, TRUE)

\* pow(a, n) reads a.value, so a must be a Variable; a.value ** n with a
\* Variable n is handed by Python to n.__rpow__(a.value), that is pow(a.value, n)
pow(h, a, n) ==
    IF a.kind # "Variable" THEN [heap |-> h, val |-> PyErr("AttributeError")]
    ELSE IF n.kind = "Variable" THEN [heap |-> h, val |-> PyErr("AttributeError")]
    ELSE Variable(h, RPow(h[a.id].value, n.value[1]),
                  <<<<a.id, RMul(n.value, h[a.id].value)>>>>, TRUE)

__add__(h, self, other) ==
    LET w == Wrap(h, other) IN add(w.heap, self, w.val)

__radd__(h, self, other) ==
    LET w == Wrap(h, other) IN add(w.heap, self, w.val)

__mul__(h, self, other) ==
    LET w == Wrap(h, other) IN mul(w.heap, self, w.val)

__rmul__(h, self, other) ==
    LET w == Wrap(h, other) IN mul(w.heap, self, w.val)

__sub__(h, self, other) ==
    LET w == Wrap(h, other)
        n == neg(w.heap, w.val)
    IN  add(n.heap, self, n.val)

__rsub__(h, self, other) ==
    LET w == Wrap(h, other)
        n == neg(w.heap, self)
    IN  add(n.heap, w.val, n.val)

__truediv__(h, self, other) ==
    LET w == Wrap(h, other)
        i == inv(w.heap, w.val)
    IN  IF IsErr(i.val) THEN i ELSE mul(i.heap, self, i.val)

__rtruediv__(h, self, other) ==
    LET w == Wrap(h, other)
        i == inv(w.heap, self)
    IN  IF IsErr(i.val) THEN i ELSE mul(i.heap, w.val, i.val)

__pow__(h, self, exponent) == pow(h, self, exponent)

__rpow__(h, self, exponent) == pow(h, exponent, self)

\* Python's dispatch of a binary operator: the left operand's method when it
\* is a Variable, else the right operand's reflected method
BinOp(h, op, l, r) ==
    IF l.kind = "Variable" THEN
        CASE op = "+"  -> __add__(h, l, r)
          [] op = "-"  -> __sub__(h, l, r)
          [] op = "*"  -> __mul__(h, l, r)
          [] op = "/"  -> __truediv__(h, l, r)
          [] op = "**" -> __pow__(h, l, r)
    ELSE IF r.kind = "Variable" THEN
        CASE op = "+"  -> __radd__(h, r, l)
          [] op = "-"  -> __rsub__(h, r, l)
          [] op = "*"  -> __rmul__(h, r, l)
          [] op = "/"  -> __rtruediv__(h, r, l)
          [] op = "**" -> __rpow__(h, r, l)
    ELSE [heap |-> h, val |-> PyErr("NotModelled")]

(***************************************************************************)
(* Expressions of the self-test, as syntax trees, and their evaluation     *)
(* (left operand first, then the right one, then the operator).            *)
(***************************************************************************)
Name(n) == [kind |-> "name", id |-> n]

Const(r) == [kind |-> "const", value |-> r]

Bin(op, l, r) == [kind |-> "binop", op |-> op, l |-> l, r |-> r]

RECURSIVE Eval(_, _, _)
Eval(h, en, e) ==
    CASE e.kind = "name"  -> [heap |-> h, val |-> en[e.id]]
      [] e.kind = "const" -> [heap |-> h, val |-> PyNum(e.value)]
      [] e.kind = "binop" ->
            LET L == Eval(h, en, e.l)
            IN  IF IsErr(L.val) THEN L
                ELSE LET Rt == Eval(L.heap, en, e.r)
                     IN  IF IsErr(Rt.val) THEN Rt
                         ELSE BinOp(Rt.heap, e.op, L.val, Rt.val)

\* def f(a, b): return (a / b - a) * (b / a + a + b) * (a - b)
f ==
    Bin("*",
        Bin("*",
            Bin("-", Bin("/", Name("a"), Name("b")), Name("a")),
            Bin("+", Bin("+", Bin("/", Name("b"), Name("a")), Name("a")), Name("b"))),
        Bin("-", Name("a"), Name("b")))

\* def loss(y, y_hat): return 0.5 * (y - y_hat)**2
loss == Bin("*", Const(<<1, 2>>), Bin("**", Bin("-", Name("y"), Name("y_hat")), Const(R(2))))

\* def linear_y_hat(w_0, w_1, x_1): return w_0 + w_1*x_1
linear_y_hat == Bin("+", Name("w_0"), Bin("*", Name("w_1"), Name("x_1")))

\* the statements a test evaluates, in order: <<name bound, expression>>;
\* the value of the last one is the root that is differentiated
Program(t) ==
    CASE t.prog = "f"      -> << <<"y", f>> >>
      [] t.prog = "linear" -> << <<"y_hat", linear_y_hat>>, <<"L", loss>> >>
      [] t.prog = "a*b"    -> << <<"r", Bin("*", Name("a"), Name("b"))>> >>
      [] t.prog = "x*x"    -> << <<"r", Bin("*", Name("x"), Name("x"))>> >>
      [] t.prog = "x-x"    -> << <<"r", Bin("-", Name("x"), Name("x"))>> >>
      [] t.prog = "op"     ->
            IF t.reflected THEN << <<"r", Bin(t.op, Name("c"), Name("x"))>> >>
            ELSE << <<"r", Bin(t.op, Name("x"), Name("c"))>> >>

Bind(en, n, v) == [m \in DOMAIN en \cup {n} |-> IF m = n THEN v ELSE en[m]]

RECURSIVE Run(_, _, _, _)
Run(h, en, prog, k) ==
    LET res == Eval(h, en, prog[k][2])
    IN  IF IsErr(res.val) THEN [heap |-> res.heap, env |-> en, val |-> res.val]
        ELSE IF k = Len(prog)
        THEN [heap |-> res.heap, env |-> Bind(en, prog[k][1], res.val), val |-> res.val]
        ELSE Run(res.heap, Bind(en, prog[k][1], res.val), prog, k + 1)

(***************************************************************************)
(* compute_gradients                                                       *)
(***************************************************************************)
\* gradients[child_variable] += gradient on a defaultdict(lambda: 0),
\* keyed by the identity of the Variable object
Accumulate(g, child, gradient) ==
    IF child \in DOMAIN g THEN [g EXCEPT ![child] = RAdd(@, gradient)]
    ELSE [k \in DOMAIN g \cup {child} |-> IF k = child THEN RAdd(R(0), gradient) ELSE g[k]]

\* the inner function, from edge number k of variable._gradients on
RECURSIVE _compute_gradients(_, _, _, _, _)
_compute_gradients(h, g, variable, total_gradient, k) ==
    IF k > Len(h[variable]._gradients) THEN g
    ELSE LET child_variable == h[variable]._gradients[k][1]
             child_gradient == h[variable]._gradients[k][2]
             gradient == RMul(total_gradient, child_gradient)
             g1 == Accumulate(g, child_variable, gradient)
             criteria == /\ Len(h[child_variable]._gradients) = 1
                         /\ h[child_variable]._gradients[1][1] = child_variable
             g2 == IF ~criteria
                   THEN _compute_gradients(h, g1, child_variable, gradient, 1)
                   ELSE g1
         IN  _compute_gradients(h, g2, variable, total_gradient, k + 1)

RECURSIVE SumOver(_, _)
SumOver(g, keys) ==
    IF keys = {} THEN R(0)
    ELSE LET k == CHOOSE x \in keys : TRUE
         IN  RAdd(g[k], SumOver(g, keys \ {k}))

\* mutant: the mapping keyed by the value of a node instead of its identity
compute_gradients_by_value(h, variable) ==
    LET g == _compute_gradients(h, <<>>, variable, R(1), 1)
    IN  [k \in DOMAIN g |-> SumOver(g, {j \in DOMAIN g : h[j].value = h[k].value})]

compute_gradients(h, variable) == _compute_gradients(h, <<>>, variable, R(1), 1)

\* reading an entry of the returned mapping
Get(g, k) == IF k \in DOMAIN g THEN g[k] ELSE R(0)

\* mutant: the computed mapping is not stored on the node
gradients_property_unstored(h, self) == h

\* the gradients property: computed on the first access and stored
gradients_property(h, self) ==
    IF h[self]._stored_gradients.isNone
    THEN [h EXCEPT ![self]._stored_gradients = Stored(compute_gradients(h, self))]
    ELSE h

(***************************************************************************)
(* The autodiff script: construct the leaves, evaluate an expression,      *)
(* differentiate it.                                                       *)
(***************************************************************************)
Idle == [pc |-> "idle"]

Vals == {Rat(n, d) : n \in -MaxVal..MaxVal, d \in {1, 2}}

NonZero == {v \in Vals : v[1] # 0}

Exps == {R(n) : n \in 0..MaxExp}

Ops == {"+", "-", "*", "/", "**"}

T(p) == [prog |-> p, op |-> "", reflected |-> FALSE]

Tests ==
    {T("f"), T("linear"), T("a*b"), T("x*x"), T("x-x")}
    \cup {[prog |-> "op", op |-> o, reflected |-> b] : o \in Ops, b \in BOOLEAN}

\* the numbers a test starts from
Inputs(t) ==
    CASE t.prog = "f"      -> [{"a", "b"} -> NonZero]
      [] t.prog = "linear" -> [{"x_1", "w_0", "w_1", "y"} -> Vals]
      [] t.prog = "a*b"    -> [{"a", "b"} -> Vals]
      [] t.prog = "x*x"    -> [{"x"} -> Vals]
      [] t.prog = "x-x"    -> [{"x"} -> Vals]
      [] t.prog = "op"     ->
            {i \in [{"x", "c"} -> Vals \cup Exps] :
                t.op = "**" => IF t.reflected THEN i["x"] \in Exps ELSE i["c"] \in Exps}

\* the names a test binds to leaf Variables, in the order it constructs them
Leaves(t) ==
    CASE t.prog = "f"      -> <<"a", "b">>
      [] t.prog = "linear" -> <<"x_1", "w_0", "w_1", "y">>
      [] t.prog = "a*b"    -> <<"a", "b">>
      [] t.prog = "x*x"    -> <<"x">>
      [] t.prog = "x-x"    -> <<"x">>
      [] t.prog = "op"     -> <<"x">>

InitAD ==
    /\ access = Idle /\ direct = Idle
    /\ rrun = Idle /\ jid = Idle /\ pace = Idle /\ limpet = Idle
    /\ vclamp = Idle /\ cicr = Idle /\ jafri = Idle
    /\ lif = Idle /\ adapt = Idle /\ pois = Idle /\ bin = Idle /\ rest = Idle
    /\ test \in Tests
    /\ \E i \in Inputs(test) : env = [n \in DOMAIN i |-> PyNum(i[n])]
    /\ heap = <<>>
    /\ root = PyNum(R(0))
    /\ gradients = <<>>
    /\ adpc = "start"

otherThanAD == <<access, spikeVars, rest, driverVars, widgetVars>>

RECURSIVE MakeLeaves(_, _, _, _)
MakeLeaves(h, en, names, k) ==
    IF k > Len(names) THEN [heap |-> h, env |-> en]
    ELSE LET v == Variable(h, en[names[k]].value, <<>>, FALSE)
         IN  MakeLeaves(v.heap, Bind(en, names[k], v.val), names, k + 1)

\* a = Variable(230.3); b = Variable(33.2) ...
Construct ==
    /\ adpc = "start"
    /\ LET m == MakeLeaves(heap, env, Leaves(test), 1)
       IN  heap' = m.heap /\ env' = m.env
    /\ adpc' = "constructed"
    /\ UNCHANGED <<test, root, gradients, otherThanAD>>

\* y = f(a, b) ...
Evaluate ==
    /\ adpc = "constructed"
    /\ LET res == Run(heap, env, Program(test), 1)
       IN  /\ heap' = res.heap
           /\ env' = res.env
           /\ root' = res.val
           /\ adpc' = IF IsErr(res.val) THEN "raised" ELSE "evaluated"
    /\ UNCHANGED <<test, gradients, otherThanAD>>

\* gradients = compute_gradients(y)
ComputeGradients ==
    /\ adpc = "evaluated"
    /\ gradients' = compute_gradients(heap, root.id)
    /\ adpc' = "computed"
    /\ UNCHANGED <<heap, env, test, root, otherThanAD>>

\* y.gradients
AccessGradients ==
    /\ adpc \in {"evaluated", "computed"}
    /\ heap[root.id]._stored_gradients.isNone
    /\ heap' = gradients_property(heap, root.id)
    /\ UNCHANGED <<env, test, root, gradients, adpc, otherThanAD>>

NextAD == Construct \/ Evaluate \/ ComputeGradients \/ AccessGradients

SpecAD == InitAD /\ [][NextAD]_vars

(***************************************************************************)
(* Claims about the autodiff library (checked under SpecAD).               *)
(***************************************************************************)
\* the value a leaf bound to name n was constructed with
LeafValue(n) == heap[env[n].id].value

\* the entry of the leaf bound to name n in the mapping compute_gradients returned
Grad(n) == Get(gradients, env[n].id)

\* f = u * v * w with u = a/b - a, v = b/a + a + b, w = a - b, and its
\* partial derivatives by the product rule
U(a, b) == RSub(RDiv(a, b), a)

V(a, b) == RAdd(RAdd(RDiv(b, a), a), b)

W(a, b) == RSub(a, b)

dfda(a, b) ==
    RAdd(RAdd(RMul(RMul(RSub(RDiv(R(1), b), R(1)), V(a, b)), W(a, b)),
              RMul(RMul(U(a, b), RSub(R(1), RDiv(b, RMul(a, a)))), W(a, b))),
         RMul(U(a, b), V(a, b)))

dfdb(a, b) ==
    RAdd(RAdd(RMul(RMul(RNeg(RDiv(a, RMul(b, b))), V(a, b)), W(a, b)),
              RMul(RMul(U(a, b), RAdd(RDiv(R(1), a), R(1))), W(a, b))),
         RNeg(RMul(U(a, b), V(a, b))))

\* C1: for f(a,b) = (a/b - a)*(b/a + a + b)*(a - b) on two non-zero leaves,
\* compute_gradients(f)[a] and [b] (also read through f.gradients) are the
\* exact partial derivatives df/da and df/db
C1_GradientsOfF ==
    test.prog = "f" =>
        /\ adpc = "computed" =>
              /\ Grad("a") = dfda(LeafValue("a"), LeafValue("b"))
              /\ Grad("b") = dfdb(LeafValue("a"), LeafValue("b"))
        /\ (adpc \in {"evaluated", "computed"} /\ ~heap[root.id]._stored_gradients.isNone) =>
              /\ heap[root.id]._stored_gradients.map[env["a"].id]
                    = dfda(LeafValue("a"), LeafValue("b"))
              /\ heap[root.id]._stored_gradients.map[env["b"].id]
                    = dfdb(LeafValue("a"), LeafValue("b"))

C1_Witness ==
    /\ test.prog = "f" /\ adpc = "computed"
    /\ LeafValue("a") = <<-1, 2>> /\ LeafValue("b") = R(2)
    /\ Grad("a") # R(0) /\ Grad("b") # R(0)
    /\ ~heap[root.id]._stored_gradients.isNone

\* the prediction of the linear model, from the leaf values
LinearYHat == RAdd(LeafValue("w_0"), RMul(LeafValue("w_1"), LeafValue("x_1")))

\* C2: for L = 0.5*(y - y_hat)**2 with y_hat = w_0 + w_1*x_1 on four leaves,
\* the gradient of L for w_0 is y_hat - y and for w_1 is x_1*(y_hat - y)
C2_LinearLossGradients ==
    (test.prog = "linear" /\ adpc = "computed") =>
        /\ Grad("w_0") = RSub(LinearYHat, LeafValue("y"))
        /\ Grad("w_1") = RMul(LeafValue("x_1"), RSub(LinearYHat, LeafValue("y")))

C2_Witness ==
    /\ test.prog = "linear" /\ adpc = "computed"
    /\ LeafValue("x_1") = <<1, 2>> /\ LeafValue("y") = R(-2)
    /\ LeafValue("w_0") = R(0) /\ LeafValue("w_1") = R(2)
    /\ Grad("w_1") = <<3, 2>>

\* C3 as stated: the gradient of L = 0.5*(y - y_hat)**2 for the leaf y is
\* y_hat - y
C3_Original ==
    (test.prog = "linear" /\ adpc = "computed") =>
        Grad("y") = RSub(LinearYHat, LeafValue("y"))

\* C3 amended: the gradient of L = 0.5*(y - y_hat)**2 for the leaf y, on
\* which y_hat does not depend, is y - y_hat
C3_GradientForY ==
    (test.prog = "linear" /\ adpc = "computed") =>
        Grad("y") = RSub(LeafValue("y"), LinearYHat)

C3_Witness ==
    /\ test.prog = "linear" /\ adpc = "computed"
    /\ LeafValue("y") = R(2) /\ LinearYHat = <<1, 2>>
    /\ Grad("y") = <<3, 2>>

\* the arithmetic result of l op r on plain numbers
Arith(op, l, r) ==
    CASE op = "+"  -> RAdd(l, r)
      [] op = "-"  -> RSub(l, r)
      [] op = "*"  -> RMul(l, r)
      [] op = "/"  -> RDiv(l, r)
      [] op = "**" -> RPow(l, r[1])

\* C4: for every operator among + - * / ** , x op c and c op x with a
\* Variable x and a plain number c return a Variable whose value is the
\* arithmetic result with the operands in the written order (a division by
\* zero aside)
C4_MixedOperands ==
    (test.prog = "op" /\ adpc \notin {"start", "constructed"}) =>
        LET l == IF test.reflected THEN env["c"].value ELSE LeafValue("x")
            r == IF test.reflected THEN LeafValue("x") ELSE env["c"].value
        IN  (test.op = "/" /\ r[1] = 0) \/
            (/\ root.kind = "Variable"
             /\ heap[root.id].value = Arith(test.op, l, r))

\* C5: the mapping is keyed by node identity: in r = a*b the entry of a is
\* b.value and the entry of b is a.value also when a.value = b.value; a node
\* reached along several paths has one entry, the sum over the paths:
\* 2*x.value for r = x*x and 0 for r = x - x
C5_KeyedByIdentity ==
    adpc = "computed" =>
        /\ test.prog = "a*b" =>
              /\ env["a"].id # env["b"].id
              /\ DOMAIN gradients = {env["a"].id, env["b"].id}
              /\ gradients[env["a"].id] = LeafValue("b")
              /\ gradients[env["b"].id] = LeafValue("a")
        /\ test.prog = "x*x" =>
              /\ DOMAIN gradients = {env["x"].id}
              /\ gradients[env["x"].id] = RMul(R(2), LeafValue("x"))
        /\ test.prog = "x-x" =>
              /\ env["x"].id \in DOMAIN gradients
              /\ gradients[env["x"].id] = R(0)

C5_Witness ==
    /\ test.prog = "a*b" /\ adpc = "computed"
    /\ LeafValue("a") = R(2) /\ LeafValue("b") = R(2)
    /\ gradients[env["a"].id] = R(2)

(***************************************************************************)
(* methods.py: lif_integrate                                               *)
(***************************************************************************)
\* 0-based indexing of numpy arrays
At(a, i) == a[i + 1]

Put(a, i, x) == [a EXCEPT ![i + 1] = x]

\* np.zeros(n)
zeros(n) == [k \in 1..n |-> R(0)]

\* one column of a binary spike matrix, and its sum over the cells (axis 0)
Columns == [1..NCells -> {0, 1}]

RECURSIVE ColumnSum(_, _)
ColumnSum(c, k) == IF k = 0 THEN 0 ELSE c[k] + ColumnSum(c, k - 1)

\* the keyword arguments lif_integrate is called with
LifArgs ==
    { [tau |-> R(2), dt |-> R(1), ur |-> R(0), u_thresh |-> R(2), w_exc |-> R(2), w_inh |-> R(-2)],
      [tau |-> R(4), dt |-> R(1), ur |-> R(-2), u_thresh |-> R(-1), w_exc |-> R(1), w_inh |-> R(-1)],
      [tau |-> R(2), dt |-> <<1, 2>>, ur |-> R(-1), u_thresh |-> R(-1), w_exc |-> <<1, 2>>, w_inh |-> R(-1)] }

InitLIF ==
    /\ access = Idle /\ direct = Idle
    /\ rrun = Idle /\ jid = Idle /\ pace = Idle /\ limpet = Idle
    /\ vclamp = Idle /\ cicr = Idle /\ jafri = Idle
    /\ heap = <<>> /\ env = <<>> /\ test = T("") /\ root = PyNum(R(0))
    /\ gradients = <<>> /\ adpc = "idle"
    /\ adapt = Idle /\ pois = Idle /\ bin = Idle /\ rest = Idle
    /\ \E a \in LifArgs, n \in 1..NBins :
          lif = [pc |-> "call", args |-> a, T |-> n,
                 exc_spike_counts |-> <<>>, inh_spike_counts |-> <<>>,
                 us |-> <<>>, out_spike_train |-> <<>>, i_t |-> 0]

otherThanLIF == <<adVars, adapt, direct, pois, bin, rest, driverVars, widgetVars>>

\* us = np.zeros(shape); out_spike_train = np.zeros(shape); us[0] = ur
lif_enter ==
    /\ lif.pc = "call"
    /\ lif' = [lif EXCEPT !.pc = "loop",
                          !.us = Put(zeros(lif.T), 0, lif.args.ur),
                          !.out_spike_train = zeros(lif.T),
                          !.i_t = 0]
    /\ UNCHANGED otherThanLIF

\* leak = us[i_t] - ur; current = w_inh*inh + w_exc*exc;
\* us[i_t] - dt*leak/tau + current
lif_update(a, u, inh, exc) ==
    LET leak == RSub(u, a.ur)
        current == RAdd(RMul(a.w_inh, R(inh)), RMul(a.w_exc, R(exc)))
    IN  RAdd(RSub(u, RDiv(RMul(a.dt, leak), a.tau)), current)

\* mutant: the threshold test taken as >=
lif_crosses_at_equal(a, u) == RLe(a.u_thresh, u)

\* if us[i_t + 1] > u_thresh
lif_crosses(a, u) == RLt(a.u_thresh, u)

\* one iteration of for i_t in range(len(us) - 1), on the column i_t of the
\* two spike matrices
lif_step ==
    /\ lif.pc = "loop"
    /\ lif.i_t < lif.T - 1
    /\ \E ce \in Columns, ci \in Columns :
          LET exc == ColumnSum(ce, NCells)
              inh == ColumnSum(ci, NCells)
              u   == lif_update(lif.args, At(lif.us, lif.i_t), inh, exc)
              hit == lif_crosses(lif.args, u)
          IN  lif' = [lif EXCEPT
                        !.exc_spike_counts = Append(@, exc),
                        !.inh_spike_counts = Append(@, inh),
                        !.us = Put(@, lif.i_t + 1, IF hit THEN lif.args.ur ELSE u),
                        !.out_spike_train = Put(@, lif.i_t + 1, IF hit THEN R(1) ELSE R(0)),
                        !.i_t = lif.i_t + 1]
    /\ UNCHANGED otherThanLIF

\* return us, out_spike_train
lif_return ==
    /\ lif.pc = "loop"
    /\ lif.i_t = lif.T - 1
    /\ lif' = [lif EXCEPT !.pc = "done"]
    /\ UNCHANGED otherThanLIF

NextLIF == lif_enter \/ lif_step \/ lif_return

SpecLIF == InitLIF /\ [][NextLIF]_vars

\* the update of the claim, written from us[k] and the counts of bin k
UnresetUpdate(k) ==
    RAdd(RAdd(RSub(At(lif.us, k),
                   RDiv(RMul(lif.args.dt, RSub(At(lif.us, k), lif.args.ur)), lif.args.tau)),
              RMul(lif.args.w_inh, R(At(lif.inh_spike_counts, k)))),
         RMul(lif.args.w_exc, R(At(lif.exc_spike_counts, k))))

\* C6: in the outputs of lif_integrate a flagged sample equals ur, no sample
\* exceeds u_thresh (ur <= u_thresh), sample 0 is ur and unflagged, and
\* sample k+1 is flagged exactly when the un-reset update from sample k is
\* strictly greater than u_thresh
C6_LifReset ==
    lif.pc = "done" =>
        /\ Len(lif.us) = lif.T /\ Len(lif.out_spike_train) = lif.T
        /\ At(lif.us, 0) = lif.args.ur
        /\ At(lif.out_spike_train, 0) = R(0)
        /\ \A k \in 0..(lif.T - 1) :
              /\ At(lif.out_spike_train, k) \in {R(0), R(1)}
              /\ At(lif.out_spike_train, k) = R(1) => At(lif.us, k) = lif.args.ur
              /\ RLe(lif.args.ur, lif.args.u_thresh) => RLe(At(lif.us, k), lif.args.u_thresh)
        /\ \A k \in 0..(lif.T - 2) :
              At(lif.out_spike_train, k + 1) = R(1) <=> RLt(lif.args.u_thresh, UnresetUpdate(k))

\* a run with a spike, and a sample that reached u_thresh exactly without one
C6_Witness ==
    /\ lif.pc = "done"
    /\ \E k \in 0..(lif.T - 2) :
          /\ UnresetUpdate(k) = lif.args.u_thresh
          /\ At(lif.out_spike_train, k + 1) = R(0)
    /\ \E k \in 0..(lif.T - 1) : At(lif.out_spike_train, k) = R(1)

(***************************************************************************)
(* methods.py: poisson_neurons                                             *)
(***************************************************************************)
\* the values np.random.exponential can return here: positive numbers
Draws == {<<1, 2>>, R(1), R(2)}

Last(q) == q[Len(q)]

InitPOIS ==
    /\ access = Idle /\ direct = Idle
    /\ rrun = Idle /\ jid = Idle /\ pace = Idle /\ limpet = Idle
    /\ vclamp = Idle /\ cicr = Idle /\ jafri = Idle
    /\ heap = <<>> /\ env = <<>> /\ test = T("") /\ root = PyNum(R(0))
    /\ gradients = <<>> /\ adpc = "idle"
    /\ lif = Idle /\ adapt = Idle /\ bin = Idle /\ rest = Idle
    /\ \E n \in 1..NCells, d \in 0..MaxDur :
          pois = [pc |-> "next", ncells |-> n, duration |-> R(d),
                  trains |-> <<>>, i |-> 0, t |-> R(0), spikes |-> <<>>]

otherThanPOIS == <<adVars, lif, adapt, direct, bin, rest, driverVars, widgetVars>>

\* generate_spike_train() is entered for cell i: t = 0; spikes = []
poisson_begin_train ==
    /\ pois.pc = "next"
    /\ pois.i < pois.ncells
    /\ pois' = [pois EXCEPT !.pc = "while", !.t = R(0), !.spikes = <<>>]
    /\ UNCHANGED otherThanPOIS

\* mutant: a time equal to duration kept
poisson_keeps_at_equal(t, duration) == RLe(t, duration)

\* if t < duration
poisson_keeps(t, duration) == RLt(t, duration)

\* one iteration of while t < duration
poisson_draw ==
    /\ pois.pc = "while"
    /\ RLt(pois.t, pois.duration)
    /\ \E dt \in Draws :
          LET t == RAdd(pois.t, dt)
          IN  pois' = [pois EXCEPT
                         !.t = t,
                         !.spikes = IF poisson_keeps(t, pois.duration)
                                    THEN Append(@, t) ELSE @]
    /\ UNCHANGED otherThanPOIS

\* the loop ends: return np.array(spikes), collected by the list comprehension
poisson_end_train ==
    /\ pois.pc = "while"
    /\ ~RLt(pois.t, pois.duration)
    /\ pois' = [pois EXCEPT !.pc = "next",
                            !.trains = Append(@, pois.spikes),
                            !.i = pois.i + 1]
    /\ UNCHANGED otherThanPOIS

\* the list comprehension over range(ncells) is exhausted
poisson_return ==
    /\ pois.pc = "next"
    /\ pois.i = pois.ncells
    /\ pois' = [pois EXCEPT !.pc = "done"]
    /\ UNCHANGED otherThanPOIS

NextPOIS == poisson_begin_train \/ poisson_draw \/ poisson_end_train \/ poisson_return

SpecPOIS == InitPOIS /\ [][NextPOIS]_vars

StrictlyIncreasing(q) == \A k \in 1..(Len(q) - 1) : RLt(q[k], q[k + 1])

AllBelow(q, d) == \A k \in 1..Len(q) : RLt(q[k], d)

\* C7: poisson_neurons returns exactly ncells trains, each strictly
\* increasing with every time < duration; an accumulated time below duration
\* is kept, and the first one that reaches or exceeds duration is not kept
\* and ends the train
C7_PoissonTrains ==
    /\ pois.pc = "done" => Len(pois.trains) = pois.ncells
    /\ pois.pc \in {"next", "while", "done"} =>
          /\ \A c \in 1..Len(pois.trains) :
                StrictlyIncreasing(pois.trains[c]) /\ AllBelow(pois.trains[c], pois.duration)
          /\ StrictlyIncreasing(pois.spikes) /\ AllBelow(pois.spikes, pois.duration)
    /\ pois.pc = "while" =>
          IF RLt(pois.t, pois.duration)
          THEN (pois.spikes = <<>> /\ pois.t = R(0))
                 \/ (pois.spikes # <<>> /\ Last(pois.spikes) = pois.t)
          ELSE pois.spikes = <<>> \/ RLt(Last(pois.spikes), pois.t)
    /\ (pois.pc \in {"next", "done"} /\ pois.i > 0) =>
          /\ Last(pois.trains) = pois.spikes
          /\ ~RLt(pois.t, pois.duration)

\* two trains returned, the second with two spikes, ended by a time that
\* equals duration
C7_Witness ==
    /\ pois.pc = "done" /\ pois.ncells = 2
    /\ Len(pois.trains[2]) = 2
    /\ pois.t = pois.duration

(***************************************************************************)
(* methods.py: spike_trains_to_binary                                      *)
(***************************************************************************)
Times == {Rat(k, 2) : k \in 0..MaxHalf}

\* the spike-time arrays of one cell: any order, repetitions allowed
Trains == UNION {[1..n -> Times] : n \in 0..MaxSpikes}

BinDurations == {R(0), R(1), <<3, 2>>, R(2)}

BinSizes == {<<1, 2>>, R(1)}

InitBIN ==
    /\ access = Idle /\ direct = Idle
    /\ rrun = Idle /\ jid = Idle /\ pace = Idle /\ limpet = Idle
    /\ vclamp = Idle /\ cicr = Idle /\ jafri = Idle
    /\ heap = <<>> /\ env = <<>> /\ test = T("") /\ root = PyNum(R(0))
    /\ gradients = <<>> /\ adpc = "idle"
    /\ lif = Idle /\ adapt = Idle /\ pois = Idle /\ rest = Idle
    /\ \E n \in {1, 2}, d \in BinDurations, b \in BinSizes :
          bin = [pc |-> "rows", ncells |-> n, duration |-> d, bin_size |-> b,
                 spike_timess |-> <<>>, rows |-> <<>>]

otherThanBIN == <<adVars, lif, adapt, direct, pois, rest, driverVars, widgetVars>>

\* mutant: the spikes of a bin counted
mark_counting(binary, bin_idx) == Put(binary, bin_idx, RAdd(At(binary, bin_idx), R(1)))

\* binary[bin_idx] = 1
mark(binary, bin_idx) == Put(binary, bin_idx, R(1))

\* for spike_time in spike_times, from spike number k on (the times are
\* non-negative, so bin_idx is never a negative index)
RECURSIVE mark_spikes(_, _, _, _, _)
mark_spikes(binary, spike_times, bin_size, n_bins, k) ==
    IF k > Len(spike_times) THEN binary
    ELSE LET bin_idx == PyInt(RDiv(spike_times[k], bin_size))
         IN  mark_spikes(IF bin_idx < n_bins THEN mark(binary, bin_idx) ELSE binary,
                         spike_times, bin_size, n_bins, k + 1)

spike_train_to_binary(spike_times, duration, bin_size) ==
    LET n_bins == PyInt(RDiv(duration, bin_size))
    IN  mark_spikes(zeros(n_bins), spike_times, bin_size, n_bins, 1)

\* one element of the list comprehension: the next cell's spike times
bin_row ==
    /\ bin.pc = "rows"
    /\ Len(bin.rows) < bin.ncells
    /\ \E spike_times \in Trains :
          bin' = [bin EXCEPT
                    !.spike_timess = Append(@, spike_times),
                    !.rows = Append(@, spike_train_to_binary(spike_times, bin.duration,
                                                            bin.bin_size))]
    /\ UNCHANGED otherThanBIN

\* return np.array([...])
bin_return ==
    /\ bin.pc = "rows"
    /\ Len(bin.rows) = bin.ncells
    /\ bin' = [bin EXCEPT !.pc = "done"]
    /\ UNCHANGED otherThanBIN

NextBIN == bin_row \/ bin_return

SpecBIN == InitBIN /\ [][NextBIN]_vars

\* the floor of a rational
Floor(x) == x[1] \div x[2]

\* C8: spike_trains_to_binary returns one row per cell with
\* floor(duration/bin_size) entries, each 0 or 1; entry b is 1 exactly when
\* some spike time t of the cell has floor(t/bin_size) = b; a spike with
\* t >= duration falls in no entry
C8_Binarization ==
    bin.pc = "done" =>
        /\ Len(bin.rows) = bin.ncells
        /\ \A c \in 1..bin.ncells :
              LET row == bin.rows[c]
                  st  == bin.spike_timess[c]
                  n   == Floor(RDiv(bin.duration, bin.bin_size))
              IN  /\ Len(row) = n
                  /\ \A b \in 0..(n - 1) :
                        /\ At(row, b) \in {R(0), R(1)}
                        /\ At(row, b) = R(1) <=>
                              \E k \in 1..Len(st) : Floor(RDiv(st[k], bin.bin_size)) = b
                  /\ \A k \in 1..Len(st) :
                        RLe(bin.duration, st[k]) =>
                            Floor(RDiv(st[k], bin.bin_size)) \notin 0..(n - 1)

\* a cell with two spikes in one bin, and a spike at or after duration
C8_Witness ==
    /\ bin.pc = "done" /\ bin.ncells = 2
    /\ bin.duration = <<3, 2>> /\ bin.bin_size = R(1)
    /\ bin.spike_timess[1] = <<R(0), <<1, 2>>>>
    /\ bin.rows[1] = <<R(1)>>
    /\ bin.spike_timess[2] = <<<<3, 2>>, R(1)>>
    /\ bin.rows[2] = <<R(0)>>

(***************************************************************************)
(* methods.py: lif_with_adaptation                                         *)
(***************************************************************************)
\* the arguments lif_with_adaptation is called with, T aside
AdaptArgs ==
    { [dt |-> R(1), u_rest |-> R(0), u_thresh |-> R(1), tau_m |-> R(2), tau_w |-> R(4),
       a |-> <<1, 2>>, b |-> R(1), R |-> R(1), w_exc |-> R(2), w_inh |-> R(-2)],
      [dt |-> R(2), u_rest |-> R(-1), u_thresh |-> R(0), tau_m |-> R(4), tau_w |-> R(2),
       a |-> R(1), b |-> R(2), R |-> R(2), w_exc |-> R(1), w_inh |-> R(-1)] }

InitADAPT ==
    /\ access = Idle /\ direct = Idle
    /\ rrun = Idle /\ jid = Idle /\ pace = Idle /\ limpet = Idle
    /\ vclamp = Idle /\ cicr = Idle /\ jafri = Idle
    /\ heap = <<>> /\ env = <<>> /\ test = T("") /\ root = PyNum(R(0))
    /\ gradients = <<>> /\ adpc = "idle"
    /\ lif = Idle /\ pois = Idle /\ bin = Idle /\ rest = Idle
    /\ \E a \in AdaptArgs, n \in 2..(NBins + 1) :
          adapt = [pc |-> "call", args |-> a, T |-> R(n), num_iters |-> 0,
                   I |-> <<>>, u |-> <<>>, w |-> <<>>, spikes |-> <<>>, i |-> 0]

otherThanADAPT == <<adVars, lif, direct, pois, bin, rest, driverVars, widgetVars>>

\* num_iters = int(T/dt); u, w, spikes = np.zeros(num_iters); u[0] = u_rest
adapt_enter ==
    /\ adapt.pc = "call"
    /\ LET num_iters == PyInt(RDiv(adapt.T, adapt.args.dt))
       IN  adapt' = [adapt EXCEPT !.pc = "loop",
                                  !.num_iters = num_iters,
                                  !.u = Put(zeros(num_iters), 0, adapt.args.u_rest),
                                  !.w = zeros(num_iters),
                                  !.spikes = zeros(num_iters),
                                  !.i = 1]
    /\ UNCHANGED otherThanADAPT

\* du_dt = (-(u[i-1] - u_rest) + R * I[i-1] - R * a * w[i-1]) / tau_m
adapt_du_dt(a, u, w, I) ==
    RDiv(RSub(RAdd(RNeg(RSub(u, a.u_rest)), RMul(a.R, I)), RMul(RMul(a.R, a.a), w)), a.tau_m)

\* dw_dt = (a * (u[i-1] - u_rest) - w[i-1]) / tau_w
adapt_dw_dt(a, u, w) == RDiv(RSub(RMul(a.a, RSub(u, a.u_rest)), w), a.tau_w)

\* mutant: the threshold test taken as >
adapt_crosses_strictly(a, u) == RLt(a.u_thresh, u)

\* if u[i] >= u_thresh
adapt_crosses(a, u) == RLe(a.u_thresh, u)

\* one iteration of for i in range(1, num_iters), on column i-1 of the two
\* spike matrices: I[i-1] = w_exc*exc + w_inh*inh
adapt_step ==
    /\ adapt.pc = "loop"
    /\ adapt.i < adapt.num_iters
    /\ \E ce \in Columns, ci \in Columns :
          LET a   == adapt.args
              i   == adapt.i
              I   == RAdd(RMul(a.w_exc, R(ColumnSum(ce, NCells))),
                          RMul(a.w_inh, R(ColumnSum(ci, NCells))))
              u   == RAdd(At(adapt.u, i - 1),
                          RMul(a.dt, adapt_du_dt(a, At(adapt.u, i - 1), At(adapt.w, i - 1), I)))
              w   == RAdd(At(adapt.w, i - 1),
                          RMul(a.dt, adapt_dw_dt(a, At(adapt.u, i - 1), At(adapt.w, i - 1))))
              hit == adapt_crosses(a, u)
          IN  adapt' = [adapt EXCEPT
                          !.I = Append(@, I),
                          !.u = Put(@, i, IF hit THEN a.u_rest ELSE u),
                          !.w = Put(@, i, IF hit THEN RAdd(w, a.b) ELSE w),
                          !.spikes = Put(@, i, IF hit THEN R(1) ELSE R(0)),
                          !.i = i + 1]
    /\ UNCHANGED otherThanADAPT

\* return u, spikes
adapt_return ==
    /\ adapt.pc = "loop"
    /\ adapt.i >= adapt.num_iters
    /\ adapt' = [adapt EXCEPT !.pc = "done"]
    /\ UNCHANGED otherThanADAPT

NextADAPT == adapt_enter \/ adapt_step \/ adapt_return

SpecADAPT == InitADAPT /\ [][NextADAPT]_vars

\* the explicit-Euler values of u and w at step i, from the values at i-1
EulerU(i) ==
    RAdd(At(adapt.u, i - 1),
         RMul(adapt.args.dt,
              RDiv(RSub(RAdd(RSub(adapt.args.u_rest, At(adapt.u, i - 1)),
                             RMul(adapt.args.R, At(adapt.I, i - 1))),
                        RMul(adapt.args.R, RMul(adapt.args.a, At(adapt.w, i - 1)))),
                   adapt.args.tau_m)))

EulerW(i) ==
    RAdd(At(adapt.w, i - 1),
         RMul(adapt.args.dt,
              RDiv(RSub(RMul(adapt.args.a, RSub(At(adapt.u, i - 1), adapt.args.u_rest)),
                        At(adapt.w, i - 1)),
                   adapt.args.tau_w)))

\* C9: in lif_with_adaptation, for every step i in 1..floor(T/dt)-1,
\* spikes[i] = 1 exactly when the Euler value of u is >= u_thresh; then
\* u[i] = u_rest and w[i] is its Euler value plus b, otherwise both keep their
\* Euler values; u[i] < u_thresh everywhere when u_rest < u_thresh;
\* u[0] = u_rest, spikes[0] = 0, and the outputs have floor(T/dt) entries
C9_AdaptiveLif ==
    adapt.pc = "done" =>
        LET n == Floor(RDiv(adapt.T, adapt.args.dt))
        IN  /\ Len(adapt.u) = n /\ Len(adapt.spikes) = n
            /\ At(adapt.u, 0) = adapt.args.u_rest
            /\ At(adapt.spikes, 0) = R(0)
            /\ \A i \in 1..(n - 1) :
                  /\ At(adapt.spikes, i) \in {R(0), R(1)}
                  /\ At(adapt.spikes, i) = R(1) <=> RLe(adapt.args.u_thresh, EulerU(i))
                  /\ At(adapt.spikes, i) = R(1) =>
                        /\ At(adapt.u, i) = adapt.args.u_rest
                        /\ At(adapt.w, i) = RAdd(EulerW(i), adapt.args.b)
                  /\ At(adapt.spikes, i) = R(0) =>
                        /\ At(adapt.u, i) = EulerU(i)
                        /\ At(adapt.w, i) = EulerW(i)
            /\ RLt(adapt.args.u_rest, adapt.args.u_thresh) =>
                  \A i \in 0..(n - 1) : RLt(At(adapt.u, i), adapt.args.u_thresh)

\* a run with a spike at an Euler value equal to u_thresh, and a later step
\* without a spike
C9_Witness ==
    /\ adapt.pc = "done"
    /\ adapt.num_iters >= 3
    /\ EulerU(1) = adapt.args.u_thresh
    /\ At(adapt.spikes, 1) = R(1)
    /\ At(adapt.spikes, 2) = R(0)
    /\ At(adapt.w, 2) # R(0)

(***************************************************************************)
(* 02B_APD_restitution/run.py: visualize                                   *)
(***************************************************************************)
\* float(-5), float(-10): the limits of the loss-of-capture test
DiLimit == -5

ApdLimit == -10

\* the margin plotResults is given around the data range
AxisMargin == 10

\* a line of the file: a comment (line[0] == "#") or a data row, of which
\* visualize reads p[3] (APD) and p[5] (DI)
DataLines == [comment : {FALSE}, apd : {175, 190, 195, 200}, di : {80, 90, 93, 95}]

CommentLine == [comment |-> TRUE, apd |-> 0, di |-> 0]

Files == UNION {[1..n -> DataLines \cup {CommentLine}] : n \in 0..MaxLines}

\* lines = file.readlines(); di = []; apd = []; cnt = 0; diffdi = 0; diffapd = 0
InitREST ==
    /\ access = Idle /\ direct = Idle
    /\ rrun = Idle /\ jid = Idle /\ pace = Idle /\ limpet = Idle
    /\ vclamp = Idle /\ cicr = Idle /\ jafri = Idle
    /\ heap = <<>> /\ env = <<>> /\ test = T("") /\ root = PyNum(R(0))
    /\ gradients = <<>> /\ adpc = "idle"
    /\ lif = Idle /\ adapt = Idle /\ pois = Idle /\ bin = Idle
    /\ \E lines \in Files :
          rest = [pc |-> "for", lines |-> lines, next |-> 1,
                  di |-> <<>>, apd |-> <<>>, cnt |-> 0, diffdi |-> 0, diffapd |-> 0,
                  limits |-> <<>>]

otherThanREST == <<adVars, spikeVars, driverVars, widgetVars>>

\* mutant: a row kept when either difference is within its limit
visualize_keeps_either(diffdi, diffapd) == diffdi > DiLimit \/ diffapd > ApdLimit

\* if float(diffdi) > float(-5) and float(diffapd) > float(-10)
visualize_keeps(diffdi, diffapd) == diffdi > DiLimit /\ diffapd > ApdLimit

\* mutant: a row failing the test is skipped and the scan goes on
visualize_line_continue ==
    /\ rest.pc = "for"
    /\ rest.next <= Len(rest.lines)
    /\ LET p == rest.lines[rest.next]
           diffdi  == IF rest.cnt > 0 THEN rest.di[rest.cnt] - p.di ELSE rest.diffdi
           diffapd == IF rest.cnt > 0 THEN rest.apd[rest.cnt] - p.apd ELSE rest.diffapd
       IN  IF p.comment
           THEN rest' = [rest EXCEPT !.next = @ + 1]
           ELSE IF visualize_keeps(diffdi, diffapd)
           THEN rest' = [rest EXCEPT !.next = @ + 1,
                                     !.diffdi = diffdi, !.diffapd = diffapd,
                                     !.apd = Append(@, p.apd),
                                     !.di = Append(@, p.di),
                                     !.cnt = @ + 1]
           ELSE rest' = [rest EXCEPT !.next = @ + 1,
                                     !.diffdi = diffdi, !.diffapd = diffapd]
    /\ UNCHANGED otherThanREST

\* one iteration of for line in lines
visualize_line ==
    /\ rest.pc = "for"
    /\ rest.next <= Len(rest.lines)
    /\ LET p == rest.lines[rest.next]
           diffdi  == IF rest.cnt > 0 THEN rest.di[rest.cnt] - p.di ELSE rest.diffdi
           diffapd == IF rest.cnt > 0 THEN rest.apd[rest.cnt] - p.apd ELSE rest.diffapd
       IN  IF p.comment
           THEN rest' = [rest EXCEPT !.next = @ + 1]
           ELSE IF visualize_keeps(diffdi, diffapd)
           THEN rest' = [rest EXCEPT !.next = @ + 1,
                                     !.diffdi = diffdi, !.diffapd = diffapd,
                                     !.apd = Append(@, p.apd),
                                     !.di = Append(@, p.di),
                                     !.cnt = @ + 1]
           ELSE rest' = [rest EXCEPT !.pc = "closed",
                                     !.diffdi = diffdi, !.diffapd = diffapd]
    /\ UNCHANGED otherThanREST

\* the lines are exhausted
visualize_end_for ==
    /\ rest.pc = "for"
    /\ rest.next > Len(rest.lines)
    /\ rest' = [rest EXCEPT !.pc = "closed"]
    /\ UNCHANGED otherThanREST

Min(q) == CHOOSE x \in {q[k] : k \in 1..Len(q)} : \A k \in 1..Len(q) : x <= q[k]

Max(q) == CHOOSE x \in {q[k] : k \in 1..Len(q)} : \A k \in 1..Len(q) : x >= q[k]

\* plotResults(di, apd, min(di)-10, max(di)+10, min(apd)-10, max(apd)+10, ...);
\* min() of an empty list raises ValueError
visualize_plot ==
    /\ rest.pc = "closed"
    /\ IF rest.di = <<>>
       THEN rest' = [rest EXCEPT !.pc = "ValueError"]
       ELSE rest' = [rest EXCEPT
                       !.pc = "plotted",
                       !.limits = <<Min(rest.di) - AxisMargin, Max(rest.di) + AxisMargin,
                                    Min(rest.apd) - AxisMargin, Max(rest.apd) + AxisMargin>>]
    /\ UNCHANGED otherThanREST

NextREST == visualize_line \/ visualize_end_for \/ visualize_plot

SpecREST == InitREST /\ [][NextREST]_vars

\* the data rows of the file, in order
IsData(l) == ~l.comment

DataRows == SelectSeq(rest.lines, IsData)

\* over the first k data rows each DI is more than 5 below the previous one
\* and each APD more than 10 below the previous one
FallingPrefix(k) ==
    \A j \in 2..k :
        /\ DataRows[j].di < DataRows[j - 1].di - 5
        /\ DataRows[j].apd < DataRows[j - 1].apd - 10

\* exactly the first k data rows are retained
RetainsFirst(k) ==
    /\ rest.di = [j \in 1..k |-> DataRows[j].di]
    /\ rest.apd = [j \in 1..k |-> DataRows[j].apd]

\* C10 as stated: when the first k data rows fall and row k+1 has a larger
\* DI or a larger APD than row k, exactly the first k rows are retained
C10_Original ==
    rest.pc \in {"closed", "plotted"} =>
        \A k \in 1..(Len(DataRows) - 1) :
            (/\ FallingPrefix(k)
             /\ \/ DataRows[k + 1].di > DataRows[k].di
                \/ DataRows[k + 1].apd > DataRows[k].apd)
            => RetainsFirst(k)

\* C10 amended: when the first k data rows fall and row k+1 has a DI at
\* least 5 above, or an APD at least 10 above, that of row k, exactly the
\* first k rows are retained and every later row is discarded
C10_TruncationAtJump ==
    rest.pc \in {"closed", "plotted"} =>
        \A k \in 1..(Len(DataRows) - 1) :
            (/\ FallingPrefix(k)
             /\ \/ DataRows[k + 1].di >= DataRows[k].di + 5
                \/ DataRows[k + 1].apd >= DataRows[k].apd + 10)
            => RetainsFirst(k)

\* two falling rows, then a row whose DI is 10 above: two rows plotted
C10_Witness ==
    /\ rest.pc = "plotted"
    /\ Len(DataRows) = 3
    /\ FallingPrefix(2)
    /\ DataRows[3].di = DataRows[2].di + 10
    /\ DataRows[3].apd = DataRows[2].apd
    /\ RetainsFirst(2)

(***************************************************************************)
(* 02B_APD_restitution/run.py : run(args, job).  The driver searches the   *)
(* capture threshold with trial runs of the external bench, doubles it and *)
(* launches the restitution protocol.  job.bench and job.bash are recorded *)
(* in cmds; what bench leaves in thresh.txt is drawn from Readings.        *)
(***************************************************************************)
MaxTrials == 3       \* the threshold search is followed for this many trials

delta_curr == 2

ThreshLimit == -10

Protocols == {"S1S2", "Dynamic"}

\* Vm[50,1] of a trial trace, in mV
Readings == {-86, -11, -10, -9, 25}

RunArgs ==
    [dry : BOOLEAN, Protocol : Protocols, visualize : BOOLEAN, BATCH : BOOLEAN,
     params : {"None", "G_Kr=0.134"}, initial : {"None", "state.sv"},
     stale : BOOLEAN]

\* stimcurr = 0; thresh_achieved = False; delta_curr = 2;
\* bcmd = ['--imp', args.imp] (+ ['--imp-par', args.params])
InitRUN ==
    /\ access = Idle /\ direct = Idle
    /\ heap = <<>> /\ env = <<>> /\ test = T("") /\ root = PyNum(R(0))
    /\ gradients = <<>> /\ adpc = "idle"
    /\ lif = Idle /\ adapt = Idle /\ pois = Idle /\ bin = Idle /\ rest = Idle
    /\ jid = Idle /\ pace = Idle /\ limpet = Idle
    /\ vclamp = Idle /\ cicr = Idle /\ jafri = Idle
    /\ \E args \in RunArgs :
          rrun = [pc |-> "while", args |-> args, stimcurr |-> 0,
                  thresh_achieved |-> FALSE, ropt |-> "unbound",
                  readings |-> <<>>, cmds |-> <<>>,
                  written |-> <<>>, opened |-> <<>>]

otherThanRUN == <<adVars, spikeVars, rest, jid, pace, limpet, widgetVars>>

\* the command line of one threshold trial
trial_cmd(args, stimcurr) ==
    [prog |-> "bench", imp_par |-> args.params, numstim |-> 1,
     stim_curr |-> stimcurr, fout |-> "thresh",
     restitute |-> "", res_file |-> "", initial |-> "None"]

\* mutant: a trace that only reaches the limit counts as captured
run_captures_at_limit(Vm) == Vm >= ThreshLimit

\* if Vm[50,1] > -10.
run_captures(Vm) == Vm > ThreshLimit

\* one iteration of while not thresh_achieved
run_trial ==
    /\ rrun.pc = "while"
    /\ ~rrun.thresh_achieved
    /\ rrun.stimcurr < delta_curr * MaxTrials
    /\ LET stimcurr == rrun.stimcurr + delta_curr
           cmds == Append(rrun.cmds, trial_cmd(rrun.args, stimcurr))
       IN  IF rrun.args.dry
           THEN rrun' = [rrun EXCEPT !.stimcurr = stimcurr, !.cmds = cmds,
                                     !.thresh_achieved = TRUE]
           ELSE \E Vm \in Readings :
                  rrun' = [rrun EXCEPT
                             !.stimcurr = stimcurr, !.cmds = cmds,
                             !.opened = Append(@, "thresh.txt"),
                             !.readings = Append(@, Vm),
                             !.thresh_achieved = run_captures(Vm)]
    /\ UNCHANGED otherThanRUN

\* stimcurr = stimcurr*2
run_double ==
    /\ rrun.pc = "while"
    /\ rrun.thresh_achieved
    /\ rrun' = [rrun EXCEPT !.stimcurr = @ * 2, !.pc = "protocol"]
    /\ UNCHANGED otherThanRUN

\* the two if statements that choose ropt and write restitution_protocol.txt
run_protocol ==
    /\ rrun.pc = "protocol"
    /\ LET args == rrun.args
           s1s2 == args.Protocol = "S1S2"
           dyn == args.Protocol = "Dynamic" /\ ~args.dry
       IN  rrun' = [rrun EXCEPT
                      !.pc = "main",
                      !.ropt = IF dyn THEN "dyn" ELSE IF s1s2 THEN "S1S2" ELSE @,
                      !.written = IF (s1s2 \/ dyn) /\ ~args.dry
                                  THEN Append(@, "restitution_protocol.txt")
                                  ELSE @]
    /\ UNCHANGED otherThanRUN

\* the command line of the restitution run
main_cmd(args, stimcurr, ropt) ==
    [prog |-> "bench", imp_par |-> args.params, numstim |-> 0,
     stim_curr |-> stimcurr, fout |-> "restout",
     restitute |-> ropt, res_file |-> "restitution_protocol.txt",
     initial |-> args.initial]

\* pars = [..., '--restitute', ropt, ...]; job.bench(bcmd+pars);
\* reading a local name that was never assigned raises UnboundLocalError
run_main ==
    /\ rrun.pc = "main"
    /\ IF rrun.ropt = "unbound"
       THEN rrun' = [rrun EXCEPT !.pc = "UnboundLocalError"]
       ELSE rrun' = [rrun EXCEPT
                       !.pc = "post",
                       !.cmds = Append(@, main_cmd(rrun.args, rrun.stimcurr, rrun.ropt))]
    /\ UNCHANGED otherThanRUN

\* restout_APD_restitution.dat is there when bench ran, or was left by an
\* earlier job of the same identifier
apd_file_exists(r) == ~r.args.dry \/ r.args.stale

\* if args.visualize and not settings.platform.BATCH: visualize(job, args);
\* job.bash([settings.execs.APDRESTITUTION, apdfile, args.imp])
run_visualize ==
    /\ rrun.pc = "post"
    /\ IF rrun.args.visualize /\ ~rrun.args.BATCH
       THEN IF apd_file_exists(rrun)
            THEN rrun' = [rrun EXCEPT
                            !.pc = "done",
                            !.opened = Append(@, "restout_APD_restitution.dat"),
                            !.cmds = Append(@, [prog |-> "APDRESTITUTION",
                                                imp_par |-> "None", numstim |-> 0,
                                                stim_curr |-> 0, fout |-> "",
                                                restitute |-> "", res_file |-> "",
                                                initial |-> "None"])]
            ELSE rrun' = [rrun EXCEPT !.pc = "FileNotFoundError"]
       ELSE rrun' = [rrun EXCEPT !.pc = "done"]
    /\ UNCHANGED otherThanRUN

NextRUN == run_trial \/ run_double \/ run_protocol \/ run_main \/ run_visualize

SpecRUN == InitRUN /\ [][NextRUN]_vars

\* the threshold trials and the restitution runs among the recorded commands
IsTrial(c) == c.prog = "bench" /\ c.fout = "thresh"

IsMain(c) == c.prog = "bench" /\ c.fout = "restout"

Trials(r) == SelectSeq(r.cmds, IsTrial)

MainRuns(r) == SelectSeq(r.cmds, IsMain)

\* the trials whose trace exceeded the limit (in dry mode: the first trial)
Captured(r) ==
    IF r.args.dry THEN {1} \cap (1..Len(Trials(r)))
    ELSE {i \in 1..Len(r.readings) : r.readings[i] > -10}

Least(S) == CHOOSE x \in S : \A y \in S : x <= y

\* C11: the trial currents are 2, 4, 6, ... in that order; a trial captures
\* (ends the search) if and only if row 50, column 1 of its trace is strictly
\* greater than -10; and the --stim-curr of the --restitute run is twice the
\* smallest trial current that captured (4 in dry mode).
C11_ThresholdSearch ==
    rrun.pc # "idle" =>
        LET tr == Trials(rrun)
            n == Len(tr)
        IN  /\ \A i \in 1..n : tr[i].stim_curr = 2 * i
            /\ ~rrun.args.dry =>
                  /\ Len(rrun.readings) = n
                  /\ \A i \in 1..n : i < n => ~(rrun.readings[i] > -10)
                  /\ n > 0 => (rrun.thresh_achieved <=> rrun.readings[n] > -10)
            /\ \A j \in 1..Len(MainRuns(rrun)) :
                  /\ Captured(rrun) # {}
                  /\ MainRuns(rrun)[j].stim_curr
                        = 2 * tr[Least(Captured(rrun))].stim_curr
                  /\ rrun.args.dry => MainRuns(rrun)[j].stim_curr = 4

\* the search passed over a trace of exactly -10 mV, captured at 4 and the
\* restitution run was started with 8
C11_Witness ==
    /\ rrun.pc = "post"
    /\ ~rrun.args.dry
    /\ rrun.readings = <<-10, 25>>
    /\ Len(MainRuns(rrun)) = 1
    /\ MainRuns(rrun)[1].stim_curr = 8

\* C12: in dry mode run completes for both protocols, with or without
\* --visualize: one threshold trial, no protocol file written, no simulator
\* output opened for reading, and --restitute S1S2 or dyn as the protocol says.
C12_DryRunCompletes ==
    (rrun.pc # "idle" /\ rrun.args.dry) =>
        /\ rrun.pc \notin {"UnboundLocalError", "FileNotFoundError"}
        /\ Len(Trials(rrun)) <= 1
        /\ rrun.written = <<>>
        /\ rrun.opened = <<>>
        /\ rrun.pc \in {"post", "done"} =>
              /\ Len(Trials(rrun)) = 1
              /\ Len(MainRuns(rrun)) = 1
              /\ MainRuns(rrun)[1].restitute
                    = (IF rrun.args.Protocol = "S1S2" THEN "S1S2" ELSE "dyn")

(***************************************************************************)
(* 02B_APD_restitution/run.py : jobID(args).  Strings are kept as          *)
(* sequences of pieces; a template is a sequence in which "{}" marks a     *)
(* replacement field.                                                      *)
(***************************************************************************)
\* str.format with automatic field numbering: the i-th "{}" takes the i-th
\* argument, arguments left over are ignored, a field without an argument
\* raises IndexError
RECURSIVE format(_, _)
format(tpl, a) ==
    IF tpl = <<>> THEN <<>>
    ELSE IF Head(tpl) # "{}" THEN <<Head(tpl)>> \o format(Tail(tpl), a)
    ELSE IF a = <<>> THEN <<"IndexError">>
    ELSE <<Head(a)>> \o format(Tail(tpl), Tail(a))

\* if args.params: is false for None and for the empty string
Truthy(s) == s \notin {"None", ""}

\* ID = '{}_CI0-{}_CI1-{}_{}'.format(today.isoformat(), args.CI0, args.CI1,
\* args.Protocol); if args.params: ID += '_{}'.format(args.imp, args.params)
jobID(today, args) ==
    LET ID == format(<<"{}", "_CI0-", "{}", "_CI1-", "{}", "_", "{}">>,
                     <<today, args.CI0, args.CI1, args.Protocol>>)
    IN  IF Truthy(args.params)
        THEN ID \o format(<<"_", "{}">>, <<args.imp, args.params>>)
        ELSE ID

Dates == {"2024-06-17", "2024-06-18"}

JobArgs ==
    [CI0 : {"50", "75"}, CI1 : {"None", "600"}, Protocol : Protocols,
     imp : {"tenTusscherPanfilov", "OHara"},
     params : {"None", "", "G_Kr=0.134", "G_Ks=0.270"}]

\* two invocations of the driver, each on its own date with its own arguments
InitJOBID ==
    /\ access = Idle /\ direct = Idle
    /\ heap = <<>> /\ env = <<>> /\ test = T("") /\ root = PyNum(R(0))
    /\ gradients = <<>> /\ adpc = "idle"
    /\ lif = Idle /\ adapt = Idle /\ pois = Idle /\ bin = Idle /\ rest = Idle
    /\ rrun = Idle /\ pace = Idle /\ limpet = Idle
    /\ vclamp = Idle /\ cicr = Idle /\ jafri = Idle
    /\ \E d \in [1..2 -> Dates], a \in [1..2 -> JobArgs] :
          jid = [pc |-> "start", today |-> d, args |-> a, ID |-> <<>>]

otherThanJOBID == <<adVars, spikeVars, rest, rrun, pace, limpet, widgetVars>>

\* the decorator calls jobID(args) when an invocation starts
jobID_call ==
    /\ jid.pc = "start"
    /\ Len(jid.ID) < 2
    /\ LET k == Len(jid.ID) + 1
       IN  jid' = [jid EXCEPT !.ID = Append(@, jobID(jid.today[k], jid.args[k]))]
    /\ UNCHANGED otherThanJOBID

\* both invocations have their output directory
jobID_done ==
    /\ jid.pc = "start"
    /\ Len(jid.ID) = 2
    /\ jid' = [jid EXCEPT !.pc = "done"]
    /\ UNCHANGED otherThanJOBID

NextJOBID == jobID_call \/ jobID_done

SpecJOBID == InitJOBID /\ [][NextJOBID]_vars

\* C13: two invocations on the same date with equal CI0, CI1, protocol and
\* model but different non-empty --params values get different job identifiers.
C13_ParamsInJobID ==
    jid.pc = "done" =>
        LET a == jid.args[1]
            b == jid.args[2]
        IN  (/\ jid.today[1] = jid.today[2]
             /\ a.CI0 = b.CI0 /\ a.CI1 = b.CI1
             /\ a.Protocol = b.Protocol /\ a.imp = b.imp
             /\ Truthy(a.params) /\ Truthy(b.params)
             /\ a.params # b.params)
            => jid.ID[1] # jid.ID[2]

(***************************************************************************)
(* 01_basic_bench/run.py : run(args, job) of the single-cell pacing        *)
(* driver.  cwd and out are the regular files of the working directory and *)
(* of the job directory; the external bench and the directory the launcher *)
(* hands over are the environment.                                         *)
(***************************************************************************)
File(base, ext) == [base |-> base, ext |-> ext]

NoFile == File("", "")

TraceHeader == File("tenTusscherPanfilov_trace_header", "txt")

TraceData == File("Trace_0", "dat")

SavedState == File("exp_tenTusscherPanfilov_bcl_500_ms_dur_500_ms", "sv")

InitState == File("steady", "sv")

Notes == File("notes", "txt")

\* what bench can leave in the working directory
BenchOutputs == {TraceHeader, TraceData, SavedState}

\* for file in glob.glob(r'*.txt'), r'*.dat', r'*.sv'
MovedExtensions == <<"txt", "dat", "sv">>

glob(dir, ext) == {x \in dir : x.ext = ext}

PaceArgs ==
    [init : {NoFile, InitState}, dry : BOOLEAN, visualize : BOOLEAN,
     BATCH : BOOLEAN, webGUI : BOOLEAN]

Event(e, file) == [ev |-> e, file |-> file]

\* the job directory exists when bench is to write into it; a dry run may
\* find none; it may hold the files of an earlier run with the same job.ID
InitPACE ==
    /\ access = Idle /\ direct = Idle
    /\ heap = <<>> /\ env = <<>> /\ test = T("") /\ root = PyNum(R(0))
    /\ gradients = <<>> /\ adpc = "idle"
    /\ lif = Idle /\ adapt = Idle /\ pois = Idle /\ bin = Idle /\ rest = Idle
    /\ rrun = Idle /\ jid = Idle /\ limpet = Idle
    /\ vclamp = Idle /\ cicr = Idle /\ jafri = Idle
    /\ \E args \in PaceArgs, cwd \in SUBSET {InitState, Notes},
          out \in SUBSET BenchOutputs, kind \in {"dir", "absent"} :
          /\ kind = "absent" => (args.dry /\ out = {})
          /\ pace = [pc |-> "check", args |-> args,
                     cwd |-> cwd, out |-> out, outkind |-> kind,
                     cwd0 |-> cwd, out0 |-> out, afterBench |-> {},
                     read_ini |-> NoFile, status |-> 0, printed |-> FALSE,
                     k |-> 1, todo |-> {}, events |-> <<>>]

otherThanPACE == <<adVars, spikeVars, rest, rrun, jid, limpet, widgetVars>>

\* mutant: the existence test without its negation
init_missing_inverted(init, cwd) == init # NoFile /\ init \in cwd

\* if args.init != '': if not os.path.isfile(args.init):
init_missing(init, cwd) == init # NoFile /\ init \notin cwd

\* the initialization file: print and sys.exit(-1), or cmd += ['--read-ini-file', ...]
pace_check_init ==
    /\ pace.pc = "check"
    /\ LET init == pace.args.init
           ev == IF init # NoFile THEN Append(pace.events, Event("isfile", init))
                 ELSE pace.events
       IN  IF init_missing(init, pace.cwd)
           THEN pace' = [pace EXCEPT !.pc = "SystemExit", !.status = -1,
                                     !.printed = TRUE, !.events = ev]
           ELSE pace' = [pace EXCEPT !.pc = "bench", !.events = ev,
                                     !.read_ini = init]
    /\ UNCHANGED otherThanPACE

\* job.bench(cmd, msg=...): a dry run only prints the command line; a real
\* run leaves its traces and the saved state in the working directory, or fails
pace_bench ==
    /\ pace.pc = "bench"
    /\ LET ev == Append(pace.events, Event("bench", pace.read_ini))
       IN  \/ /\ pace.args.dry
              /\ pace' = [pace EXCEPT !.pc = "glob", !.events = ev,
                                      !.afterBench = pace.cwd]
           \/ /\ ~pace.args.dry
              /\ \E produced \in SUBSET BenchOutputs :
                    pace' = [pace EXCEPT !.pc = "glob", !.events = ev,
                                         !.cwd = @ \cup produced,
                                         !.afterBench = pace.cwd \cup produced]
           \/ /\ ~pace.args.dry
              /\ pace' = [pace EXCEPT !.pc = "bench failed", !.events = ev]
    /\ UNCHANGED otherThanPACE

\* glob.glob(r'*.ext') is evaluated once, when its for loop starts
pace_glob ==
    /\ pace.pc = "glob"
    /\ pace' = [pace EXCEPT !.pc = "move",
                            !.todo = glob(pace.cwd, MovedExtensions[pace.k])]
    /\ UNCHANGED otherThanPACE

\* shutil.move(file, job.ID): into an existing directory unless a file of
\* that name is already there (shutil.Error); otherwise the file is renamed
\* to job.ID itself, replacing a regular file of that name
pace_move ==
    /\ pace.pc = "move"
    /\ \E file \in pace.todo :
          LET ev == Append(pace.events, Event("move", file))
          IN  IF pace.outkind = "dir"
              THEN IF file \in pace.out
                   THEN pace' = [pace EXCEPT !.pc = "shutil.Error", !.events = ev]
                   ELSE pace' = [pace EXCEPT !.cwd = @ \ {file},
                                             !.out = @ \cup {file},
                                             !.todo = @ \ {file},
                                             !.events = ev]
              ELSE pace' = [pace EXCEPT !.cwd = @ \ {file},
                                        !.outkind = "file",
                                        !.todo = @ \ {file},
                                        !.events = ev]
    /\ UNCHANGED otherThanPACE

\* the list of one for loop is exhausted
pace_end_for ==
    /\ pace.pc = "move"
    /\ pace.todo = {}
    /\ pace' = [pace EXCEPT !.k = @ + 1,
                            !.pc = IF pace.k < Len(MovedExtensions)
                                   THEN "glob" ELSE "visualize"]
    /\ UNCHANGED otherThanPACE

\* mutant: the traces are opened on a batch platform too
pace_visualize_in_batch ==
    /\ pace.pc = "visualize"
    /\ IF pace.args.visualize /\ ~pace.args.dry
       THEN IF pace.args.webGUI
            THEN pace' = [pace EXCEPT
                            !.pc = "done",
                            !.events = @ \o <<Event("sv2h5b", NoFile),
                                              Event("sv2h5t", NoFile)>>]
            ELSE IF TraceHeader \notin pace.out
            THEN pace' = [pace EXCEPT !.pc = "IndexError"]
            ELSE IF TraceData \notin pace.out
            THEN pace' = [pace EXCEPT
                            !.pc = "IndexError",
                            !.events = Append(@, Event("open", TraceHeader))]
            ELSE pace' = [pace EXCEPT
                            !.pc = "done",
                            !.events = @ \o <<Event("open", TraceHeader),
                                              Event("open", TraceData)>>]
       ELSE pace' = [pace EXCEPT !.pc = "done"]
    /\ UNCHANGED otherThanPACE

\* if args.visualize and not settings.platform.BATCH: if not args.dry:
\* visualization_GUI(args, job) or visualization(args, job.ID), which opens
\* the first *_trace_header.txt and the first *.dat of the job directory
pace_visualize ==
    /\ pace.pc = "visualize"
    /\ IF pace.args.visualize /\ ~pace.args.BATCH /\ ~pace.args.dry
       THEN IF pace.args.webGUI
            THEN pace' = [pace EXCEPT
                            !.pc = "done",
                            !.events = @ \o <<Event("sv2h5b", NoFile),
                                              Event("sv2h5t", NoFile)>>]
            ELSE IF TraceHeader \notin pace.out
            THEN pace' = [pace EXCEPT !.pc = "IndexError"]
            ELSE IF TraceData \notin pace.out
            THEN pace' = [pace EXCEPT
                            !.pc = "IndexError",
                            !.events = Append(@, Event("open", TraceHeader))]
            ELSE pace' = [pace EXCEPT
                            !.pc = "done",
                            !.events = @ \o <<Event("open", TraceHeader),
                                              Event("open", TraceData)>>]
       ELSE pace' = [pace EXCEPT !.pc = "done"]
    /\ UNCHANGED otherThanPACE

NextPACE ==
    \/ pace_check_init \/ pace_bench \/ pace_glob
    \/ pace_move \/ pace_end_for \/ pace_visualize

SpecPACE == InitPACE /\ [][NextPACE]_vars

\* run has ended, normally or with an exception
PaceEnded ==
    pace.pc \in {"done", "SystemExit", "bench failed", "shutil.Error", "IndexError"}

BenchSucceeded ==
    \E i \in 1..Len(pace.events) : pace.events[i].ev = "bench" /\ pace.pc # "bench failed"

Relocated(x) == x.ext \in {"txt", "dat", "sv"}

\* C14: after a non-dry run whose bench invocation succeeds, every .txt, .dat
\* and .sv file that was in the working directory at the end of the bench run
\* is inside the job directory and none remains in the working directory,
\* also when the run repeats an earlier job identifier.
C14_AllOutputsRelocated ==
    (PaceEnded /\ ~pace.args.dry /\ BenchSucceeded) =>
        /\ \A x \in pace.afterBench : Relocated(x) => x \in pace.out
        /\ \A x \in pace.cwd : ~Relocated(x)

\* C15: if --init is non-empty and names no existing file, run prints a
\* message and ends the process with exit status -1 before bench is invoked,
\* moving no file and starting no visualization; if --init is empty no
\* existence check is made and --read-ini-file is not passed.
C15_InitCheck ==
    pace.pc # "idle" =>
        LET init == pace.args.init
            happened(e) == \E i \in 1..Len(pace.events) : pace.events[i].ev = e
        IN  /\ (init # NoFile /\ init \notin pace.cwd0) =>
                  /\ pace.pc \in {"check", "SystemExit"}
                  /\ pace.pc = "SystemExit" => (pace.status = -1 /\ pace.printed)
                  /\ \A e \in {"bench", "move", "open", "sv2h5b", "sv2h5t"} : ~happened(e)
                  /\ pace.cwd = pace.cwd0 /\ pace.out = pace.out0
            /\ init = NoFile =>
                  /\ ~happened("isfile")
                  /\ pace.pc # "SystemExit"
                  /\ \A i \in 1..Len(pace.events) :
                        pace.events[i].ev = "bench" => pace.events[i].file = NoFile

\* the process was ended at the check of a missing initialization file
C15_Witness ==
    /\ pace.pc = "SystemExit"
    /\ pace.args.init = InitState
    /\ InitState \notin pace.cwd0
    /\ pace.status = -1
    /\ pace.events = <<Event("isfile", InitState)>>

\* bench was invoked without --read-ini-file because --init was empty
C15_WitnessEmpty ==
    /\ pace.pc = "done"
    /\ pace.args.init = NoFile
    /\ \E i \in 1..Len(pace.events) : pace.events[i] = Event("bench", NoFile)

(***************************************************************************)
(* 04_limpet_fe/run.py : run(args, job) of the dynamic-model-loading       *)
(* driver.  File names are sequences of characters, a path is a directory  *)
(* and a file name, and fs is the set of paths that exist.                 *)
(***************************************************************************)
\* str.rstrip(chars): drop trailing characters while they are among chars
RECURSIVE rstrip(_, _)
rstrip(s, chars) ==
    IF s # <<>> /\ s[Len(s)] \in {chars[i] : i \in 1..Len(chars)}
    THEN rstrip(SubSeq(s, 1, Len(s) - 1), chars)
    ELSE s

DotSo == <<".", "s", "o">>

DotModel == <<".", "m", "o", "d", "e", "l">>

\* args.load_module.rstrip('.so') + '.model'
model_file(name) == rstrip(name, DotSo) \o DotModel

Path(dir, name) == [dir |-> dir, name |-> name]

\* os.path.abspath(name) and os.path.join(EXAMPLE_DIR, name); here says
\* that the driver is started inside the tutorial directory
abspath(name) == Path("cwd", name)

join_example_dir(name, here) == Path(IF here THEN "cwd" ELSE "EXAMPLE_DIR", name)

\* --load-module values: the default-like name, a name that ends in
\* characters of '.so' before the suffix, a name without the suffix
Modules ==
    {<<"M", "B", "R", "D", "R", ".", "s", "o">>,
     <<"f", "o", "o", ".", "s", "o">>,
     <<"c", "e", "l", "l">>}

\* the name with exactly a trailing '.so' removed
Stem(name) ==
    IF Len(name) >= 3 /\ SubSeq(name, Len(name) - 2, Len(name)) = DotSo
    THEN SubSeq(name, 1, Len(name) - 3)
    ELSE name

\* the files that may exist next to a module
Neighbours(name) == {name, model_file(name), Stem(name) \o DotModel}

LimpetArgs ==
    [load_module : Modules, visualize : BOOLEAN, BATCH : BOOLEAN,
     webGUI : BOOLEAN, showCurrents : BOOLEAN]

InitLIMPET ==
    /\ access = Idle /\ direct = Idle
    /\ heap = <<>> /\ env = <<>> /\ test = T("") /\ root = PyNum(R(0))
    /\ gradients = <<>> /\ adpc = "idle"
    /\ lif = Idle /\ adapt = Idle /\ pois = Idle /\ bin = Idle /\ rest = Idle
    /\ rrun = Idle /\ jid = Idle /\ pace = Idle
    /\ vclamp = Idle /\ cicr = Idle /\ jafri = Idle
    /\ \E args \in LimpetArgs, here \in BOOLEAN :
          \E fs \in SUBSET {Path(d, n) : d \in (IF here THEN {"cwd"}
                                                ELSE {"cwd", "EXAMPLE_DIR"}),
                                         n \in Neighbours(args.load_module)} :
             limpet = [pc |-> "resolve", args |-> args, here |-> here,
                       fs |-> fs, fs0 |-> fs, IM_MODULE |-> Path("", <<>>),
                       EP |-> <<>>, warned |-> FALSE, cmds |-> <<>>]

otherThanLIMPET == <<adVars, spikeVars, rest, rrun, jid, pace, widgetVars>>

\* os.path.exists(args.load_module) or
\* os.path.exists(args.load_module.rstrip('.so') + '.model')
found_as_given(name, fs) ==
    abspath(name) \in fs \/ abspath(model_file(name)) \in fs

\* os.path.exists(os.path.join(EXAMPLE_DIR, args.load_module)) or
\* os.path.exists(os.path.join(EXAMPLE_DIR, args.load_module.rstrip('.so')+'.model'))
found_in_tutorial(name, here, fs) ==
    \/ join_example_dir(name, here) \in fs
    \/ join_example_dir(model_file(name), here) \in fs

Cmd(prog, path) == [prog |-> prog, path |-> path]

\* check availability of the shared object file
limpet_resolve ==
    /\ limpet.pc = "resolve"
    /\ LET name == limpet.args.load_module
       IN  IF found_as_given(name, limpet.fs)
           THEN limpet' = [limpet EXCEPT !.pc = "compile",
                                         !.IM_MODULE = abspath(name)]
           ELSE IF found_in_tutorial(name, limpet.here, limpet.fs)
           THEN limpet' = [limpet EXCEPT
                             !.pc = "compile",
                             !.IM_MODULE = join_example_dir(name, limpet.here)]
           ELSE limpet' = [limpet EXCEPT !.pc = "returned", !.warned = TRUE]
    /\ UNCHANGED otherThanLIMPET

\* if not os.path.exists(IM_MODULE)
needs_compile(IM_MODULE, fs) == IM_MODULE \notin fs

\* job.bash([settings.execs.MAKEDYNAMICMODEL, IM_MODULE.rstrip('.so') + '.model']);
\* the build may or may not produce the shared object
limpet_compile ==
    /\ limpet.pc = "compile"
    /\ LET IM == limpet.IM_MODULE
           IM_MODEL_FILE == Path(IM.dir, model_file(IM.name))
       IN  IF needs_compile(IM, limpet.fs)
           THEN \E built \in BOOLEAN :
                  limpet' = [limpet EXCEPT
                               !.pc = "bench",
                               !.cmds = Append(@, Cmd("MAKEDYNAMICMODEL", IM_MODEL_FILE)),
                               !.fs = IF built THEN @ \cup {IM} ELSE @]
           ELSE limpet' = [limpet EXCEPT !.pc = "bench"]
    /\ UNCHANGED otherThanLIMPET

\* EP = os.path.basename(IM_MODULE).rstrip('.so');
\* job.bench(['--load-module', IM_MODULE, ..., '--fout=' + os.path.join(job.ID, EP)])
limpet_bench ==
    /\ limpet.pc = "bench"
    /\ limpet' = [limpet EXCEPT !.pc = "visualize",
                                !.EP = rstrip(limpet.IM_MODULE.name, DotSo),
                                !.cmds = Append(@, Cmd("bench", limpet.IM_MODULE))]
    /\ UNCHANGED otherThanLIMPET

\* launchLimpetGUI(args, job, IM_MODULE)
launchLimpetGUI(args, IM_MODULE) ==
    <<Cmd("sv2h5b", IM_MODULE), Cmd("sv2h5t", IM_MODULE)>>
    \o (IF args.webGUI THEN <<>>
        ELSE <<Cmd("limpetgui", IM_MODULE)>>
             \o (IF args.showCurrents THEN <<Cmd("limpetgui", IM_MODULE)>> ELSE <<>>))

\* if args.visualize and not settings.platform.BATCH
limpet_visualize ==
    /\ limpet.pc = "visualize"
    /\ IF limpet.args.visualize /\ ~limpet.args.BATCH
       THEN limpet' = [limpet EXCEPT
                         !.pc = "done",
                         !.cmds = @ \o launchLimpetGUI(limpet.args, limpet.IM_MODULE)]
       ELSE limpet' = [limpet EXCEPT !.pc = "done"]
    /\ UNCHANGED otherThanLIMPET

NextLIMPET == limpet_resolve \/ limpet_compile \/ limpet_bench \/ limpet_visualize

SpecLIMPET == InitLIMPET /\ [][NextLIMPET]_vars

\* the .model sibling of a module: the same name with .so replaced by .model
Sibling(name) == Stem(name) \o DotModel

Dirs == {"cwd", "EXAMPLE_DIR"}

\* neither the module nor its sibling exists, as given or in the tutorial
NothingFound(name, fs) ==
    \A d \in Dirs : Path(d, name) \notin fs /\ Path(d, Sibling(name)) \notin fs

Invoked(prog) == {i \in 1..Len(limpet.cmds) : limpet.cmds[i].prog = prog}

\* C16: if the --load-module path and its .model sibling both do not exist,
\* neither as given nor relative to the tutorial directory, run warns and
\* returns without invoking the compile step, bench, the HDF5 converters or
\* the viewer.
C16_NothingFoundReturns ==
    (limpet.pc # "idle" /\ NothingFound(limpet.args.load_module, limpet.fs0)) =>
        /\ limpet.pc \in {"resolve", "returned"}
        /\ limpet.cmds = <<>>
        /\ limpet.pc = "returned" => limpet.warned

\* C17: when module resolution succeeds, the compile step is invoked if and
\* only if the resolved module file does not exist, at most once, with the
\* .model sibling of the resolved path, and always before bench; when the
\* module file exists bench is invoked with no compile step before it.
C17_CompileThenBench ==
    limpet.pc \in {"bench", "visualize", "done"} =>
        LET IM == limpet.IM_MODULE
            compiles == Invoked("MAKEDYNAMICMODEL")
        IN  /\ Cardinality(compiles) <= 1
            /\ (compiles # {}) <=> (IM \notin limpet.fs0)
            /\ \A i \in compiles :
                  /\ limpet.cmds[i].path = Path(IM.dir, Sibling(IM.name))
                  /\ \A j \in Invoked("bench") : i < j
            /\ limpet.pc \in {"visualize", "done"} => Cardinality(Invoked("bench")) = 1

(***************************************************************************)
(* L3_widgets.py : VoltageClampWidget.  solve_and_plot integrates dV_dt    *)
(* (the solver chooses the times) and then evaluates V_target on the       *)
(* sample times np.linspace(0, 10, 101).                                   *)
(***************************************************************************)
Samples == 101

\* np.linspace(0, 10, 101)[i]
linspace(i) == Rat(10 * i, Samples - 1)

\* a Python bool used as a number
BoolAsInt(b) == IF b THEN 1 ELSE 0

\* mutant: the step includes its end points
V_target_closed(t) ==
    R(BoolAsInt(RLe(R(2), t)) * BoolAsInt(RLe(t, R(6))) * 40 - 80)

\* return (t > 2)*(t < 6)*40 - 80
V_target(t) ==
    R(BoolAsInt(RLt(R(2), t)) * BoolAsInt(RLt(t, R(6))) * 40 - 80)

\* return (V - self.V_target(t))/self.Rs   (V is written Vm)
I_app(self, t, Vm) == RDiv(RSub(Vm, V_target(t)), self.Rs)

\* return -self.I_app(t, V)
I_cap(self, t, Vm) == RNeg(I_app(self, t, Vm))

\* return -self.I_app(t, V)/self.Cm
dV_dt(self, t, Vm) == RDiv(RNeg(I_app(self, t, Vm)), self.Cm)

\* times at which the solver may evaluate the right-hand side, in ms
SolverTimes == {Rat(k, 4) : k \in 0..40}

\* self.Cm = Cm; self.Rs = Rs, from the sliders of display()
InitVCLAMP ==
    /\ access = Idle /\ direct = Idle
    /\ heap = <<>> /\ env = <<>> /\ test = T("") /\ root = PyNum(R(0))
    /\ gradients = <<>> /\ adpc = "idle"
    /\ lif = Idle /\ adapt = Idle /\ pois = Idle /\ bin = Idle /\ rest = Idle
    /\ rrun = Idle /\ jid = Idle /\ pace = Idle /\ limpet = Idle
    /\ cicr = Idle /\ jafri = Idle
    /\ \E Cm \in {Rat(1, 20), Rat(1, 10)}, Rs \in {R(5), R(10)} :
          vclamp = [pc |-> "solve", self |-> [Cm |-> Cm, Rs |-> Rs],
                    t |-> R(0), Vm |-> R(-80), dV |-> R(0), target |-> <<>>]

otherThanVCLAMP == <<adVars, spikeVars, rest, driverVars, cicr, jafri>>

\* solve_ivp calls self.dV_dt(t, V)
vclamp_dV_dt ==
    /\ vclamp.pc = "solve"
    /\ \E t \in SolverTimes, Vm \in {R(-80), R(-60), R(-40)} :
          vclamp' = [vclamp EXCEPT !.t = t, !.Vm = Vm,
                                   !.dV = dV_dt(vclamp.self, t, Vm)]
    /\ UNCHANGED otherThanVCLAMP

\* ax1.step(t, self.V_target(t), label='Target') on the array of samples
vclamp_plot ==
    /\ vclamp.pc = "solve"
    /\ vclamp' = [vclamp EXCEPT
                    !.pc = "done",
                    !.target = [i \in 1..Samples |-> V_target(linspace(i - 1))]]
    /\ UNCHANGED otherThanVCLAMP

NextVCLAMP == vclamp_dV_dt \/ vclamp_plot

SpecVCLAMP == InitVCLAMP /\ [][NextVCLAMP]_vars

\* the value the step function is documented to take at time t
Step(t, high) == IF RLt(R(2), t) /\ RLt(t, R(6)) THEN R(high) ELSE R(-80)

\* the target the last right-hand side evaluation used
TargetUsed ==
    RSub(vclamp.Vm, RMul(RMul(RNeg(vclamp.dV), vclamp.self.Cm), vclamp.self.Rs))

CICRWidget ==
    [Cao |-> R(1000), k_entry |-> Rat(2, 100000), k_extrusion |-> Rat(132, 1000),
     k_uptake |-> Rat(9, 10), kappa0 |-> Rat(13, 1000), kappa1 |-> Rat(58, 100),
     Kd |-> Rat(1, 2), n |-> R(3), gamma |-> Rat(24, 100)]

\* self.name
GetAttr(self, name) == IF name \in DOMAIN self THEN self[name] ELSE CICRWidget[name]

\* self.name = value
SetAttr(self, name, value) ==
    [x \in DOMAIN self \cup {name} |-> IF x = name THEN value ELSE self[x]]

\* the property parameters
parameters(self) ==
    <<GetAttr(self, "Cao"), GetAttr(self, "k_entry"), GetAttr(self, "k_extrusion"),
      GetAttr(self, "k_uptake"), GetAttr(self, "kappa0"), GetAttr(self, "kappa1"),
      GetAttr(self, "Kd"), GetAttr(self, "n"), GetAttr(self, "gamma")>>

\* k_rel = kappa0 + kappa1 * Cai**n/(Cai**n + Kd**n)
k_rel(Cai, kappa0, kappa1, Kd, n) ==
    RAdd(kappa0, RDiv(RMul(kappa1, RPow(Cai, PyInt(n))),
                      RAdd(RPow(Cai, PyInt(n)), RPow(Kd, PyInt(n)))))

\* slider positions
HillExponents == {R(2), R(3), R(4)}

Affinities == {Rat(3, 10), Rat(1, 2), Rat(8, 10)}

InitCICR ==
    /\ access = Idle /\ direct = Idle
    /\ heap = <<>> /\ env = <<>> /\ test = T("") /\ root = PyNum(R(0))
    /\ gradients = <<>> /\ adpc = "idle"
    /\ lif = Idle /\ adapt = Idle /\ pois = Idle /\ bin = Idle /\ rest = Idle
    /\ rrun = Idle /\ jid = Idle /\ pace = Idle /\ limpet = Idle
    /\ vclamp = Idle /\ jafri = Idle
    /\ cicr = [pc |-> "constructed", self |-> <<>>,
               last |-> [view |-> "", y0 |-> <<>>, args |-> <<>>, out |-> <<>>]]

otherThanCICR == <<adVars, spikeVars, rest, driverVars, vclamp, jafri>>

\* initial_conditions_widget: solve_and_plot(Cai_0, CaSR_0):
\* solve_ivp(self.rhs, T, y0, args=self.parameters, max_step=0.1)
initial_conditions_callback ==
    /\ \E Cai_0 \in {Rat(1, 10), Rat(1, 2)}, CaSR_0 \in {R(4), R(2)} :
          LET y0 == <<Cai_0, CaSR_0>>
              args == parameters(cicr.self)
          IN  cicr' = [cicr EXCEPT
                         !.pc = "displayed",
                         !.last = [view |-> "initial_conditions", y0 |-> y0,
                                   args |-> args, out |-> <<>>]]
    /\ UNCHANGED otherThanCICR

\* krel_widget: solve_and_plot(kappa0, kappa1, Kd, n) plots k_rel over Cai
krel_callback ==
    /\ \E kappa0 \in {Rat(1, 10), R(1)}, kappa1 \in {Rat(6, 10), R(1)},
          Kd \in Affinities, n \in {R(3)} :
          cicr' = [cicr EXCEPT
                     !.pc = "displayed",
                     !.last = [view |-> "krel", y0 |-> <<>>,
                               args |-> <<kappa0, kappa1, Kd, n>>,
                               out |-> <<k_rel(R(0), kappa0, kappa1, Kd, n),
                                         k_rel(Rat(1, 2), kappa0, kappa1, Kd, n),
                                         k_rel(R(1), kappa0, kappa1, Kd, n)>>]]
    /\ UNCHANGED otherThanCICR

\* cicr_widget: solve_and_plot(Kd, n): self.Kd = Kd; self.n = n;
\* y0 = (0.080, 4.0); solve_ivp(self.rhs, T, y0, args=self.parameters, ...)
cicr_callback ==
    /\ \E Kd \in Affinities, n \in HillExponents :
          LET self == SetAttr(SetAttr(cicr.self, "Kd", Kd), "n", n)
              y0 == <<Rat(8, 100), R(4)>>
              args == parameters(self)
          IN  cicr' = [cicr EXCEPT
                         !.pc = "displayed",
                         !.self = self,
                         !.last = [view |-> "cicr", y0 |-> y0,
                                   args |-> args, out |-> <<>>]]
    /\ UNCHANGED otherThanCICR

NextCICR == initial_conditions_callback \/ krel_callback \/ cicr_callback

SpecCICR == InitCICR /\ [][NextCICR]_vars

\* C19: after any sequence of slider callbacks of the release-curve view and
\* of the parameter-sweep view, the initial-condition sweep uses, for given
\* (Cai_0, CaSR_0), the parameters of a fresh instance, so its trajectory does
\* not depend on callbacks of the other views.
C19_ViewsIndependent ==
    cicr.last.view = "initial_conditions" =>
        cicr.last.args = parameters(<<>>)

(***************************************************************************)
(* L09 (Calcium Handling)/Jafri_model.py :                                 *)
(* Jafri_model_parts.currents_concentrations.  The voltage-dependent rates *)
(* (math.exp of V) are taken as given numbers; the currents that need      *)
(* math.log or math.exp are returned without a value.                      *)
(***************************************************************************)
\* the class attributes the modelled part reads
Jafri_model_parts ==
    [a |-> R(2), b |-> R(2), g |-> R(2), f |-> Rat(3, 10), g_ |-> R(0), f_ |-> R(0),
     omega |-> Rat(1, 100), I_pCa |-> Rat(115, 10000), K_mpCa |-> Rat(5, 10000),
     k_htrpn_plus |-> R(20), k_htrpn_minus |-> Rat(66, 1000000),
     k_ltrpn_plus |-> R(40), k_ltrpn_minus |-> Rat(4, 100),
     HTRPN_tot |-> Rat(14, 100), LTRPN_tot |-> Rat(7, 100)]

\* the parameters of currents_concentrations after self, in order
StateInputs ==
    <<"V", "m", "h", "j", "Nai", "X", "Ko", "Ki", "Cai", "y",
      "C0", "C1", "C2", "C3", "C4",
      "C_Ca0", "C_Ca1", "C_Ca2", "C_Ca3", "C_Ca4", "O", "O_Ca",
      "Ca_SS", "Ca_JSR", "Ca_NSR", "HTRPNCa", "LTRPNCa">>

Occupancy == <<"C0", "C1", "C2", "C3", "C4",
               "C_Ca0", "C_Ca1", "C_Ca2", "C_Ca3", "C_Ca4", "O", "O_Ca">>

\* a returned time derivative, a returned current or flux with its value,
\* and a returned current whose value is not computed here
Derivative(name, of, value) ==
    [name |-> name, of |-> of, kind |-> "derivative", value |-> value]

Flux(name, value) == [name |-> name, of |-> "", kind |-> "flux", value |-> value]

Current(name) == [name |-> name, of |-> "", kind |-> "current"]

\* the body of currents_concentrations: everything it computes for the
\* return statement, in the order of the return statement
currents_and_derivatives(self, s, r) ==
    LET alpha == r.alpha
        beta == r.beta
        gamma == RMul(Rat(1875, 10000), s.Ca_SS)
        alpha_a == RMul(alpha, self.a)
        beta_b == RDiv(beta, self.b)
        n(k) == R(k)
        ob(k) == RDiv(self.omega, RPow(self.b, k))
        ga(k) == RMul(gamma, RPow(self.a, k))
        dm_dt == RSub(RMul(r.alpha_m, RSub(R(1), s.m)), RMul(r.beta_m, s.m))
        dh_dt == RSub(RMul(r.alpha_h, RSub(R(1), s.h)), RMul(r.beta_h, s.h))
        dj_dt == RSub(RMul(r.alpha_j, RSub(R(1), s.j)), RMul(r.beta_j, s.j))
        dX_dt == RSub(RMul(r.alpha_X, RSub(R(1), s.X)), RMul(r.beta_X, s.X))
        i_p_Ca == RDiv(RMul(self.I_pCa, s.Cai), RAdd(self.K_mpCa, s.Cai))
        dy_dt == RDiv(RSub(r.y_infinity, s.y), r.tau_y)
        dC0_dt == RSub(RAdd(RMul(beta, s.C1), RMul(self.omega, s.C_Ca0)),
                       RMul(RAdd(RMul(n(4), alpha), gamma), s.C0))
        dC1_dt == RSub(RAdd(RAdd(RMul(RMul(n(4), alpha), s.C0),
                                 RMul(RMul(n(2), beta), s.C2)),
                            RMul(ob(1), s.C_Ca1)),
                       RMul(RAdd(RAdd(beta, RMul(n(3), alpha)), ga(1)), s.C1))
        dC2_dt == RSub(RAdd(RAdd(RMul(RMul(n(3), alpha), s.C1),
                                 RMul(RMul(n(3), beta), s.C3)),
                            RMul(ob(2), s.C_Ca2)),
                       RMul(RAdd(RAdd(RMul(beta, n(2)), RMul(n(2), alpha)), ga(2)), s.C2))
        dC3_dt == RSub(RAdd(RAdd(RMul(RMul(n(2), alpha), s.C2),
                                 RMul(RMul(n(4), beta), s.C4)),
                            RMul(ob(3), s.C_Ca3)),
                       RMul(RAdd(RAdd(RMul(beta, n(3)), alpha), ga(3)), s.C3))
        dC4_dt == RSub(RAdd(RAdd(RMul(alpha, s.C3), RMul(self.g, s.O)),
                            RMul(ob(4), s.C_Ca4)),
                       RMul(RAdd(RAdd(RMul(beta, n(4)), self.f), ga(4)), s.C4))
        dC_Ca0_dt == RSub(RAdd(RMul(beta_b, s.C_Ca1), RMul(gamma, s.C_Ca0)),
                          RMul(RAdd(RMul(n(4), alpha_a), self.omega), s.C_Ca0))
        dC_Ca1_dt == RSub(RAdd(RAdd(RMul(RMul(n(4), alpha_a), s.C_Ca0),
                                    RMul(RMul(n(2), beta_b), s.C_Ca2)),
                               RMul(ga(1), s.C1)),
                          RMul(RAdd(RAdd(beta_b, RMul(n(3), alpha_a)), ob(1)), s.C_Ca1))
        dC_Ca2_dt == RSub(RAdd(RAdd(RMul(RMul(n(3), alpha_a), s.C_Ca1),
                                    RMul(RMul(n(3), beta_b), s.C_Ca3)),
                               RMul(ga(2), s.C2)),
                          RMul(RAdd(RAdd(RMul(beta_b, n(2)), RMul(n(2), alpha_a)), ob(2)),
                               s.C_Ca2))
        dC_Ca3_dt == RSub(RAdd(RAdd(RMul(RMul(n(2), alpha_a), s.C_Ca2),
                                    RMul(RMul(n(4), beta_b), s.C_Ca4)),
                               RMul(ga(3), s.C3)),
                          RMul(RAdd(RAdd(RMul(beta_b, n(3)), alpha_a), ob(3)), s.C_Ca3))
        dC_Ca4_dt == RSub(RAdd(RAdd(RMul(alpha_a, s.C_Ca3), RMul(self.g_, s.O_Ca)),
                               RMul(ga(4), s.C4)),
                          RMul(RAdd(RAdd(RMul(beta_b, n(4)), self.f_), ob(4)), s.C_Ca4))
        dO_dt == RSub(RMul(self.f, s.C4), RMul(self.g, s.O))
        dO_Ca_dt == RSub(RMul(self.f_, s.C_Ca4), RMul(self.g_, s.O_Ca))
        J_htrpn == RSub(RMul(RMul(self.k_htrpn_plus, s.Cai),
                             RSub(self.HTRPN_tot, s.HTRPNCa)),
                        RMul(self.k_htrpn_minus, s.HTRPNCa))
        J_ltrpn == RSub(RMul(RMul(self.k_ltrpn_plus, s.Cai),
                             RSub(self.LTRPN_tot, s.LTRPNCa)),
                        RMul(self.k_ltrpn_minus, s.LTRPNCa))
        J_trpn == RAdd(J_htrpn, J_ltrpn)
    IN  <<Derivative("dm_dt", "m", dm_dt), Derivative("dh_dt", "h", dh_dt),
          Derivative("dj_dt", "j", dj_dt), Current("i_Na"),
          Derivative("dX_dt", "X", dX_dt), Current("i_K"), Current("i_K1"),
          Current("i_Kp"), Current("i_NaK"), Current("i_ns_Ca"),
          Current("i_ns_Na"), Current("i_ns_K"), Flux("i_p_Ca", i_p_Ca),
          Current("i_Ca_b"), Current("i_Na_b"), Derivative("dy_dt", "y", dy_dt),
          Derivative("dC0_dt", "C0", dC0_dt), Derivative("dC1_dt", "C1", dC1_dt),
          Derivative("dC2_dt", "C2", dC2_dt), Derivative("dC3_dt", "C3", dC3_dt),
          Derivative("dC4_dt", "C4", dC4_dt),
          Derivative("dC_Ca0_dt", "C_Ca0", dC_Ca0_dt),
          Derivative("dC_Ca1_dt", "C_Ca1", dC_Ca1_dt),
          Derivative("dC_Ca2_dt", "C_Ca2", dC_Ca2_dt),
          Derivative("dC_Ca3_dt", "C_Ca3", dC_Ca3_dt),
          Derivative("dC_Ca4_dt", "C_Ca4", dC_Ca4_dt),
          Derivative("dO_dt", "O", dO_dt), Derivative("dO_Ca_dt", "O_Ca", dO_Ca_dt),
          Derivative("dHTRPNCa_dt", "HTRPNCa", J_htrpn),
          Derivative("dLTRPNCa_dt", "LTRPNCa", J_ltrpn),
          Current("i_Ca_L_Ca"), Current("i_Ca_L_K"), Flux("J_trpn", J_trpn)>>

NotOpenState(e) == e.name \notin {"dO_dt", "dO_Ca_dt"}

\* mutant: the derivatives of the two open states are left out of the return
currents_concentrations_without_open(self, s, r) ==
    SelectSeq(currents_and_derivatives(self, s, r), NotOpenState)

\* return dm_dt, dh_dt, dj_dt, i_Na, dX_dt, ..., i_Ca_L_Ca, i_Ca_L_K, J_trpn
currents_concentrations(self, s, r) == currents_and_derivatives(self, s, r)

\* rates for two membrane potentials
Rates ==
    {[alpha |-> Rat(1, 2), beta |-> Rat(1, 10),
      alpha_m |-> R(1), beta_m |-> Rat(1, 2), alpha_h |-> Rat(1, 10), beta_h |-> R(1),
      alpha_j |-> Rat(1, 10), beta_j |-> Rat(1, 5), alpha_X |-> Rat(1, 100),
      beta_X |-> Rat(1, 50), y_infinity |-> Rat(9, 10), tau_y |-> R(600)],
     [alpha |-> R(2), beta |-> R(1),
      alpha_m |-> R(4), beta_m |-> Rat(1, 10), alpha_h |-> R(0), beta_h |-> R(7),
      alpha_j |-> R(0), beta_j |-> Rat(3, 10), alpha_X |-> Rat(1, 20),
      beta_X |-> Rat(1, 100), y_infinity |-> Rat(1, 10), tau_y |-> R(20)]}

\* channel occupancies: all channels in one state, or spread over all twelve
Occupancies ==
    {[x \in 1..12 |-> IF x = k THEN R(1) ELSE R(0)] : k \in 1..12}
    \cup {[x \in 1..12 |-> Rat(1, 12)]}

\* the state handed to one call
JafriStates ==
    {[m |-> Rat(1, 10), h |-> Rat(9, 10), j |-> Rat(9, 10), X |-> Rat(1, 10),
      y |-> Rat(1, 2), Cai |-> Rat(1, 10000), Ca_SS |-> ss,
      C0 |-> occ[1], C1 |-> occ[2], C2 |-> occ[3], C3 |-> occ[4], C4 |-> occ[5],
      C_Ca0 |-> occ[6], C_Ca1 |-> occ[7], C_Ca2 |-> occ[8], C_Ca3 |-> occ[9],
      C_Ca4 |-> occ[10], O |-> occ[11], O_Ca |-> occ[12],
      HTRPNCa |-> ht, LTRPNCa |-> lt] :
        occ \in Occupancies, ss \in {R(0), Rat(1, 100)},
        ht \in {R(0), Rat(7, 100)}, lt \in {R(0), Rat(7, 100)}}

InitJAFRI ==
    /\ access = Idle /\ direct = Idle
    /\ heap = <<>> /\ env = <<>> /\ test = T("") /\ root = PyNum(R(0))
    /\ gradients = <<>> /\ adpc = "idle"
    /\ lif = Idle /\ adapt = Idle /\ pois = Idle /\ bin = Idle /\ rest = Idle
    /\ rrun = Idle /\ jid = Idle /\ pace = Idle /\ limpet = Idle
    /\ vclamp = Idle /\ cicr = Idle
    /\ \E s \in JafriStates, r \in Rates :
          jafri = [pc |-> "call", state |-> s, rates |-> r, returned |-> <<>>]

otherThanJAFRI == <<adVars, spikeVars, rest, driverVars, vclamp, cicr>>

\* one call of currents_concentrations on the instance
jafri_call ==
    /\ jafri.pc = "call"
    /\ jafri' = [jafri EXCEPT
                   !.pc = "returned",
                   !.returned = currents_concentrations(Jafri_model_parts,
                                                        jafri.state, jafri.rates)]
    /\ UNCHANGED otherThanJAFRI

NextJAFRI == jafri_call

SpecJAFRI == InitJAFRI /\ [][NextJAFRI]_vars

\* the state variables whose time derivative is among the returned values
WithDerivative ==
    {jafri.returned[i].of : i \in {k \in 1..Len(jafri.returned) :
                                      jafri.returned[k].kind = "derivative"}}

ReturnedNames == {jafri.returned[i].name : i \in 1..Len(jafri.returned)}

Inputs27 == {StateInputs[i] : i \in 1..Len(StateInputs)}

\* C20 as stated: currents_concentrations returns a time derivative for every
\* state variable it takes as input, in addition to the diagnostics
\* i_Ca_L_Ca, i_Ca_L_K and J_trpn.
C20_Original ==
    jafri.pc = "returned" =>
        /\ Inputs27 \subseteq WithDerivative
        /\ {"i_Ca_L_Ca", "i_Ca_L_K", "J_trpn"} \subseteq ReturnedNames

\* C20: currents_concentrations returns a time derivative for the gates m, h,
\* j, X, y, for the twelve channel occupancies and for HTRPNCa and LTRPNCa,
\* and for no other input (V, Nai, Ko, Ki, Cai, Ca_SS, Ca_JSR, Ca_NSR), in
\* addition to the diagnostics i_Ca_L_Ca, i_Ca_L_K and J_trpn.
C20_ReturnedDerivatives ==
    jafri.pc = "returned" =>
        /\ WithDerivative
              = {"m", "h", "j", "X", "y", "HTRPNCa", "LTRPNCa"}
                \cup {Occupancy[i] : i \in 1..Len(Occupancy)}
        /\ WithDerivative \subseteq Inputs27
        /\ Inputs27 \ WithDerivative
              = {"V", "Nai", "Ko", "Ki", "Cai", "Ca_SS", "Ca_JSR", "Ca_NSR"}
        /\ {"i_Ca_L_Ca", "i_Ca_L_K", "J_trpn"} \subseteq ReturnedNames
        /\ Len(jafri.returned) = 33

\* a call returned its 33 values for a channel population that is all open
C20_Witness ==
    /\ jafri.pc = "returned"
    /\ jafri.state.O = R(1)
    /\ Len(jafri.returned) = 33
    /\ jafri.returned[27] = Derivative("dO_dt", "O", R(-2))

(***************************************************************************)
(* Reads of the gradients property on the nodes of a small graph: the      *)
(* leaves are constructed, any node may be read any number of times, before*)
(* and after the expression is evaluated.                                  *)
(***************************************************************************)
MaxReads == 3        \* reads of the gradients property in one run

\* how many times one read of the property calls compute_gradients
gradients_calls(h, self) == IF h[self]._stored_gradients.isNone THEN 1 ELSE 0

\* what one read of the property returns: return self._stored_gradients
gradients_return(h, self) == gradients_property(h, self)[self]._stored_gradients

GradTests == {T("a*b"), T("x*x"), T("x-x")}

InitGRAD ==
    /\ direct = Idle
    /\ rrun = Idle /\ jid = Idle /\ pace = Idle /\ limpet = Idle
    /\ vclamp = Idle /\ cicr = Idle /\ jafri = Idle
    /\ lif = Idle /\ adapt = Idle /\ pois = Idle /\ bin = Idle /\ rest = Idle
    /\ test \in GradTests
    /\ \E i \in Inputs(test) : env = [n \in DOMAIN i |-> PyNum(i[n])]
    /\ heap = <<>>
    /\ root = PyNum(R(0))
    /\ gradients = <<>>
    /\ adpc = "start"
    /\ access = [pc |-> "reads", n |-> 0, seen |-> {}, node |-> 0, before |-> <<>>,
                 calls |-> 0, returned |-> NoneValue]

\* v.gradients for any node v constructed so far
read_gradients ==
    /\ adpc \in {"constructed", "evaluated"}
    /\ access.pc = "reads"
    /\ access.n < MaxReads
    /\ \E v \in 1..Len(heap) :
          /\ heap' = gradients_property(heap, v)
          /\ access' = [pc |-> "reads", n |-> access.n + 1,
                        seen |-> access.seen \cup {v}, node |-> v, before |-> heap,
                        calls |-> gradients_calls(heap, v),
                        returned |-> gradients_return(heap, v)]
    /\ UNCHANGED <<env, test, root, gradients, adpc, spikeVars, rest, driverVars,
                   widgetVars>>

NextGRAD == Construct \/ Evaluate \/ read_gradients

SpecGRAD == InitGRAD /\ [][NextGRAD]_vars

Reading == access.pc = "reads" /\ access.n > 0

FirstRead == access.before[access.node]._stored_gradients.isNone

\* C21: no gradient map is computed at construction; the first read of a
\* node's gradients property computes the map with compute_gradients and
\* stores it; every later read returns the stored map without another
\* traversal; and a read neither fills nor changes the stored map, value or
\* gradient edges of any other node.
C21_LazyCached ==
    access.pc = "reads" =>
        /\ \A v \in 1..Len(heap) :
              v \notin access.seen => heap[v]._stored_gradients = NoneValue
        /\ Reading =>
              LET v == access.node
                  b == access.before
              IN  /\ IF FirstRead
                     THEN /\ access.calls = 1
                          /\ access.returned = Stored(compute_gradients(b, v))
                     ELSE /\ access.calls = 0
                          /\ access.returned = b[v]._stored_gradients
                  /\ heap[v]._stored_gradients = access.returned
                  /\ heap[v].value = b[v].value
                  /\ heap[v]._gradients = b[v]._gradients
                  /\ \A u \in 1..Len(b) : u # v => heap[u] = b[u]

\* the root was read a second time after evaluation, while a leaf of it has
\* never been read
C21_Witness ==
    /\ Reading
    /\ adpc = "evaluated"
    /\ access.node = root.id
    /\ ~FirstRead
    /\ access.returned.map # <<>>
    /\ \E u \in 1..Len(heap) : u # root.id /\ heap[u]._stored_gradients.isNone

IsLeaf(h, v) == Len(h[v]._gradients) = 1 /\ h[v]._gradients[1][1] = v

C27_WitnessRoot ==
    /\ Reading /\ adpc = "evaluated" /\ test.prog = "a*b"
    /\ access.node = root.id
    /\ heap[env["a"].id].value[1] < 0
    /\ heap[env["b"].id].value[1] = 0
    /\ Get(access.returned.map, env["b"].id) = heap[env["a"].id].value

(***************************************************************************)
(* The scan of the restitution visualizer, row by row.                     *)
(***************************************************************************)
\* data row j passes the test against the data row before it
Passes(j) ==
    \/ j = 1
    \/ /\ DataRows[j - 1].di - DataRows[j].di > -5
       /\ DataRows[j - 1].apd - DataRows[j].apd > -10

ScanOver == rest.pc \in {"closed", "plotted", "ValueError"}

\* C22: the data rows are scanned in file order; the first is always kept;
\* a later row is kept iff (DI of the previous kept row - its DI) > -5 and
\* (APD of the previous kept row - its APD) > -10; the scan stops at the
\* first row failing either test, so the kept rows are a prefix of the data
\* rows and the DI and APD lists have equal length.
C22_PrefixScan ==
    rest.pc # "idle" =>
        LET k == Len(rest.di)
        IN  /\ Len(rest.apd) = k
            /\ rest.cnt = k
            /\ k <= Len(DataRows)
            /\ RetainsFirst(k)
            /\ \A j \in 1..k : Passes(j)
            /\ ScanOver =>
                  /\ Len(DataRows) >= 1 => k >= 1
                  /\ k < Len(DataRows) => ~Passes(k + 1)

\* the second of three data rows fails on its DI alone, the third would pass
\* against the first and against the second: one row is kept
C22_Witness ==
    /\ rest.pc = "plotted"
    /\ Len(DataRows) = 3
    /\ DataRows[1].di - DataRows[2].di = -5
    /\ DataRows[1].apd - DataRows[2].apd > -10
    /\ Passes(3)
    /\ DataRows[1].di - DataRows[3].di > -5
    /\ DataRows[1].apd - DataRows[3].apd > -10
    /\ Len(rest.di) = 1

(***************************************************************************)
(* The order of the invocations of the restitution driver.                 *)
(***************************************************************************)
\* the while loop has been left, or is about to be
SearchOver(r) == r.pc # "while" \/ r.thresh_achieved

\* run is past the statement that makes the --restitute invocation
PastMain(r) == r.pc \in {"post", "done", "FileNotFoundError", "UnboundLocalError"}

\* position of the last threshold trial among the recorded commands (0: none)
LastTrialAt(r) ==
    IF \E i \in 1..Len(r.cmds) : IsTrial(r.cmds[i])
    THEN CHOOSE i \in 1..Len(r.cmds) :
            IsTrial(r.cmds[i]) /\ \A k \in (i + 1)..Len(r.cmds) : ~IsTrial(r.cmds[k])
    ELSE 0

\* C23: the trial with current c+2 is started only after the trial with c
\* ended without capture; after a capturing trial no further trial is run;
\* the --restitute invocation happens exactly once and only after a capturing
\* trial; and the search loop is left if and only if some trial captured.
C23_TrialGating ==
    rrun.pc # "idle" =>
        LET tr == Trials(rrun)
            n == Len(tr)
        IN  /\ \A i \in 2..n :
                  /\ tr[i].stim_curr = tr[i - 1].stim_curr + 2
                  /\ (i - 1) \notin Captured(rrun)
            /\ \A i \in Captured(rrun) : i = n
            /\ SearchOver(rrun) <=> Captured(rrun) # {}
            /\ Len(MainRuns(rrun)) <= 1
            /\ \A k \in 1..Len(rrun.cmds) :
                  IsMain(rrun.cmds[k]) => Captured(rrun) # {} /\ k > LastTrialAt(rrun)
            /\ PastMain(rrun) => Len(MainRuns(rrun)) = 1

(***************************************************************************)
(* The order of bench, the moves and the visualization reads of the pacing *)
(* driver.                                                                 *)
(***************************************************************************)
PaceAt(e) == {i \in 1..Len(pace.events) : pace.events[i].ev = e}

\* C24: every move of an output file into the job directory happens after
\* the bench invocation has returned and before any trace header or .dat
\* table is opened for visualization; files are opened for visualization only
\* when visualize is set, the platform is not batch and dry mode is off.
C24_MoveBeforeRead ==
    pace.pc # "idle" =>
        /\ \A i \in PaceAt("move") :
              /\ \E j \in PaceAt("bench") : j < i
              /\ pace.pc # "bench failed"
              /\ \A k \in PaceAt("open") \cup PaceAt("sv2h5b") \cup PaceAt("sv2h5t") : i < k
        /\ \A k \in PaceAt("open") \cup PaceAt("sv2h5b") \cup PaceAt("sv2h5t") :
              /\ pace.args.visualize /\ ~pace.args.BATCH /\ ~pace.args.dry
              /\ \E j \in PaceAt("bench") : j < k
              /\ pace.pc \in {"done", "IndexError"}
        /\ Cardinality(PaceAt("bench")) <= 1
        /\ (PaceAt("open") # {} /\ pace.pc = "done") =>
              \A x \in pace.cwd : ~Relocated(x)

\* bench ran, its three outputs were moved, then the header and the table
\* were opened
C24_Witness ==
    /\ pace.pc = "done"
    /\ Cardinality(PaceAt("bench")) = 1
    /\ Cardinality(PaceAt("move")) >= 3
    /\ Cardinality(PaceAt("open")) = 2
    /\ pace.out = BenchOutputs \cup (pace.cwd0 \ {x \in pace.cwd0 : ~Relocated(x)})

(***************************************************************************)
(* The power node.                                                         *)
(***************************************************************************)
\* d/da a^n for a plain-number exponent n >= 0
PowerRule(a, n) == IF n = 0 THEN R(0) ELSE RMul(R(n), RPow(a, n - 1))

IsPower == test.prog = "op" /\ test.op = "**" /\ ~test.reflected /\ root.kind = "Variable"

\* C25: for p = a ** n with a Variable a and a plain-number exponent n, the
\* node's value is a.value^n and its single gradient edge to a carries the
\* local partial derivative n * a.value^(n-1), for every exponent n.
C25_PowerRule ==
    IsPower =>
        LET a == env["x"].id
            n == env["c"].value[1]
        IN  /\ heap[root.id].value = RPow(heap[a].value, n)
            /\ heap[root.id]._gradients = <<<<a, PowerRule(heap[a].value, n)>>>>

(***************************************************************************)
(* Conservation of the channel occupancies.                                *)
(***************************************************************************)
RECURSIVE SumOfDerivatives(_, _, _)
SumOfDerivatives(returned, names, k) ==
    IF k > Len(returned) THEN R(0)
    ELSE IF returned[k].kind = "derivative" /\ returned[k].of \in names
    THEN RAdd(returned[k].value, SumOfDerivatives(returned, names, k + 1))
    ELSE SumOfDerivatives(returned, names, k + 1)

OccupancyDrift ==
    SumOfDerivatives(jafri.returned, {Occupancy[i] : i \in 1..Len(Occupancy)}, 1)

\* C26: for every state and non-negative rates the derivatives returned for
\* the twelve L-type channel occupancies sum to zero.
C26_OccupancyConserved ==
    jafri.pc = "returned" => OccupancyDrift = R(0)

(***************************************************************************)
(* methods.py: lif_direct.  np.exp(-k / tau) is decay^k for the number     *)
(* decay = exp(-1 / tau) in (0, 1), which stands for tau in the arguments. *)
(***************************************************************************)
DirectArgs ==
    { [decay |-> <<1, 2>>, ur |-> R(0), u_thresh |-> R(2), w_exc |-> R(2), w_inh |-> R(-2)],
      [decay |-> <<1, 2>>, ur |-> R(-2), u_thresh |-> R(-1), w_exc |-> R(1), w_inh |-> R(-1)],
      [decay |-> <<1, 4>>, ur |-> R(-1), u_thresh |-> R(0), w_exc |-> <<1, 2>>, w_inh |-> R(-1)] }

\* the sums over the cells of the two binary spike matrices, bin by bin; the
\* inhibitory population has one cell
InitDIRECT ==
    /\ access = Idle
    /\ rrun = Idle /\ jid = Idle /\ pace = Idle /\ limpet = Idle
    /\ vclamp = Idle /\ cicr = Idle /\ jafri = Idle
    /\ heap = <<>> /\ env = <<>> /\ test = T("") /\ root = PyNum(R(0))
    /\ gradients = <<>> /\ adpc = "idle"
    /\ lif = Idle /\ adapt = Idle /\ pois = Idle /\ bin = Idle /\ rest = Idle
    /\ \E a \in DirectArgs, n \in 1..NBins :
          \E exc \in [1..n -> 0..NCells], inh \in [1..n -> {0, 1}] :
              direct = [pc |-> "call", args |-> a,
                        exc_spike_counts |-> exc, inh_spike_counts |-> inh,
                        us |-> <<>>, out_spike_train |-> <<>>,
                        t_prev_spike |-> 0, t |-> 0, origins |-> <<>>]

otherThanDIRECT == <<adVars, lif, adapt, pois, bin, rest, driverVars, widgetVars>>

\* K(spike_counts, weight): t_spike = np.arange(len(spike_counts));
\* np.sum(weight * spike_counts * np.exp(-t_spike[::-1] / tau))
RECURSIVE K(_, _, _, _)
K(spike_counts, weight, decay, i) ==
    IF i > Len(spike_counts) THEN R(0)
    ELSE RAdd(RMul(RMul(weight, R(spike_counts[i])),
                   RPow(decay, Len(spike_counts) - i)),
              K(spike_counts, weight, decay, i + 1))

\* mutant: the window always starts at the first bin
slice_from_start(counts, t_prev_spike, t) == SubSeq(counts, 1, t + 1)

\* spike_counts[t_prev_spike:t+1]
slice(counts, t_prev_spike, t) == SubSeq(counts, t_prev_spike + 1, t + 1)

\* out_spike_train = np.zeros(len(exc_spike_counts)); us = np.zeros(len(inh_spike_counts));
\* t_prev_spike = 0
direct_enter ==
    /\ direct.pc = "call"
    /\ direct' = [direct EXCEPT !.pc = "loop",
                                !.us = zeros(Len(direct.inh_spike_counts)),
                                !.out_spike_train = zeros(Len(direct.exc_spike_counts)),
                                !.t_prev_spike = 0, !.t = 0]
    /\ UNCHANGED otherThanDIRECT

\* one iteration of for t in range(len(exc_spike_counts))
direct_step ==
    /\ direct.pc = "loop"
    /\ direct.t < Len(direct.exc_spike_counts)
    /\ LET a == direct.args
           t == direct.t
           exc_activity == K(slice(direct.exc_spike_counts, direct.t_prev_spike, t),
                             a.w_exc, a.decay, 1)
           inh_activity == K(slice(direct.inh_spike_counts, direct.t_prev_spike, t),
                             a.w_inh, a.decay, 1)
           total_activity == RAdd(RAdd(a.ur, exc_activity), inh_activity)
           hit == RLt(a.u_thresh, total_activity)
       IN  direct' = [direct EXCEPT
                        !.us = Put(@, t, total_activity),
                        !.out_spike_train = IF hit THEN Put(@, t, R(1)) ELSE @,
                        !.origins = Append(@, direct.t_prev_spike),
                        !.t_prev_spike = IF hit THEN t ELSE @,
                        !.t = t + 1]
    /\ UNCHANGED otherThanDIRECT

\* return us, out_spike_train
direct_return ==
    /\ direct.pc = "loop"
    /\ direct.t = Len(direct.exc_spike_counts)
    /\ direct' = [direct EXCEPT !.pc = "done"]
    /\ UNCHANGED otherThanDIRECT

NextDIRECT == direct_enter \/ direct_step \/ direct_return

SpecDIRECT == InitDIRECT /\ [][NextDIRECT]_vars

\* the steps before t at which an output spike was emitted
SpikesBefore(t) == {s \in 0..(t - 1) : At(direct.out_spike_train, s) = R(1)}

Greatest(S) == CHOOSE x \in S : \A y \in S : y <= x

\* the input of bin i, weighted, as it counts at step t
RECURSIVE KernelSum(_, _, _)
KernelSum(from, to, t) ==
    IF from > to THEN R(0)
    ELSE RAdd(RMul(RAdd(RMul(direct.args.w_exc, R(At(direct.exc_spike_counts, from))),
                        RMul(direct.args.w_inh, R(At(direct.inh_spike_counts, from)))),
                   RPow(direct.args.decay, t - from)),
              KernelSum(from + 1, to, t))

\* C28: at every step t the window origin is the index of the most recent
\* earlier step with an output spike (0 if none); it never decreases and
\* never exceeds t; us[t] is ur plus the weighted kernel sum over the input
\* bins origin..t only; and an output spike is flagged at t if and only if
\* us[t] > u_thresh.
C28_WindowOrigin ==
    direct.pc \in {"loop", "done"} =>
        /\ Len(direct.origins) = direct.t
        /\ direct.t_prev_spike
              = (IF SpikesBefore(direct.t) = {} THEN 0 ELSE Greatest(SpikesBefore(direct.t)))
        /\ \A t \in 0..(direct.t - 1) :
              LET origin == At(direct.origins, t)
              IN  /\ origin = (IF SpikesBefore(t) = {} THEN 0 ELSE Greatest(SpikesBefore(t)))
                  /\ origin <= t
                  /\ t > 0 => At(direct.origins, t - 1) <= origin
                  /\ At(direct.us, t) = RAdd(direct.args.ur, KernelSum(origin, t, t))
                  /\ At(direct.out_spike_train, t) \in {R(0), R(1)}
                  /\ At(direct.out_spike_train, t) = R(1)
                        <=> RLt(direct.args.u_thresh, At(direct.us, t))

\* an output spike at step 1 after input in bin 0: at step 2 the window
\* starts at bin 1 and us[2] differs from the sum over all bins
C28_Witness ==
    /\ direct.pc = "done"
    /\ Len(direct.us) = 3
    /\ At(direct.exc_spike_counts, 0) > 0
    /\ At(direct.out_spike_train, 0) = R(0)
    /\ At(direct.out_spike_train, 1) = R(1)
    /\ At(direct.origins, 2) = 1
    /\ At(direct.us, 2) # RAdd(direct.args.ur, KernelSum(0, 2, 2))

(***************************************************************************)
(* The names derived from the module path.                                 *)
(***************************************************************************)
EndsInDotSo(name) == Len(name) >= 3 /\ SubSeq(name, Len(name) - 2, Len(name)) = DotSo

\* C29: for every module path that ends in '.so', the model-description path
\* that the driver checks and hands to the compile step is the path with
\* exactly the trailing '.so' replaced by '.model', and the model name used
\* for --fout is the basename without the '.so' suffix ('foo.so' gives
\* 'foo.model' and 'foo').
C29_SuffixReplaced ==
    (limpet.pc \notin {"idle", "resolve"} /\ EndsInDotSo(limpet.args.load_module)) =>
        /\ model_file(limpet.args.load_module) = Sibling(limpet.args.load_module)
        /\ \A i \in Invoked("MAKEDYNAMICMODEL") :
              limpet.cmds[i].path
                  = Path(limpet.IM_MODULE.dir, Sibling(limpet.IM_MODULE.name))
        /\ limpet.pc \in {"visualize", "done"} => limpet.EP = Stem(limpet.IM_MODULE.name)

(***************************************************************************)
(* What the relocation step of the pacing driver leaves alone.             *)
(***************************************************************************)
\* C30: the relocation step moves only files produced by the current run: a
\* .txt, .dat or .sv file that was in the working directory before the run
\* started is still there afterwards, and the job directory gains only files
\* the run produced.
C30_OnlyOwnFilesMoved ==
    pace.pc # "idle" =>
        /\ \A x \in pace.cwd0 : x \in pace.cwd
        /\ \A x \in pace.out \ pace.out0 : x \notin pace.cwd0
        /\ pace.outkind # "file"

=============================================================================
